---- MODULE Spec2Model ----
(***************************************************************************)
(* Model of the card generation pipeline of szmyty/profile:                *)
(*   - scripts/lib/utils.py: fallback_exists, try_load_json,               *)
(*     try_load_and_validate_json, generate_card_with_fallback             *)
(*   - scripts/lib/change_detection.py: compute_file_hash,                 *)
(*     compute_json_hash, load_hash_cache, save_hash_cache,                *)
(*     has_data_changed, update_hash_cache, should_regenerate_svg          *)
(*   - scripts/lib/metrics.py: load_workflow_metrics,                      *)
(*     save_workflow_metrics, record_workflow_run, reset_failure_count,    *)
(*     check_failure_threshold                                             *)
(*   - scripts/oura-mood-engine.py: normalize_score, compute_mood_score,   *)
(*     classify_mood                                                       *)
(*   - engine/profile_engine/utils/sanitize_svg.py: SVGSanitizer,          *)
(*     sanitize_svg                                                        *)
(*   - scripts/lib/utils.py: load_json, load_theme                         *)
(*   - scripts/generate_quote_card.py: QuoteCard.wrap_text                 *)
(*   - scripts/incremental-generate.py: generate_with_change_detection     *)
(*                                                                         *)
(* Each part of the program has its own specification over the variables   *)
(* it uses; the variables of the other parts stay at their idle values.    *)
(*                                                                         *)
(* Files are modelled by their content.  Text is a sequence of tokens;     *)
(* a Python call that returns, raises or exits is modelled by the string   *)
(* "true"/"false"/"none", "raise"/"uncaught", "exit1".                      *)
(***************************************************************************)
EXTENDS Integers, Sequences, FiniteSets, TLC

VARIABLES
    outPath,    \* output_path / svg_path handed to the scripts
    outFile,    \* content of the file at outPath
    dataPath,   \* json_path / data_path handed to the scripts
    dataFile,   \* content of the file at dataPath
    cacheDir,   \* state of cache_path.parent
    cacheFile,  \* content of the hash cache file at cache_path
    call,       \* the most recent call and its outcome
    input,      \* the arguments handed to the pure function under study
    metricsDir, \* the files of data/metrics: the metrics file and its .tmp
    recorded,   \* the runs handed to record_workflow_run so far, oldest first
    svgDir,     \* the files the sanitizer reads and writes, by path
    themeFile,  \* content of the theme configuration file
    themeCache, \* the module global _theme_cache
    themeLoads, \* the documents json.load has built so far
    renderedFrom \* hash of the data the file at outPath was rendered from

cardVars == <<outPath, outFile, dataPath, dataFile, cacheDir, cacheFile>>
pureVars == <<input>>
metricsVars == <<metricsDir, recorded>>
sanitizerVars == <<svgDir>>
themeVars == <<themeFile, themeCache, themeLoads>>
incrVars == <<renderedFrom>>

vars == <<cardVars, call, pureVars, metricsVars, sanitizerVars, themeVars, incrVars>>

\* the variables a part of the program leaves alone
otherThanCards == <<pureVars, metricsVars, sanitizerVars, themeVars, incrVars>>
otherThanPure == <<cardVars, metricsVars, sanitizerVars, themeVars, incrVars>>
otherThanMetrics == <<cardVars, pureVars, sanitizerVars, themeVars, incrVars>>
otherThanSanitizer == <<cardVars, pureVars, metricsVars, themeVars, incrVars>>
otherThanIncr == <<pureVars, metricsVars, sanitizerVars, themeVars>>
otherThanTheme == <<cardVars, pureVars, metricsVars, sanitizerVars, incrVars>>

\* the idle values of the variables a specification does not use
NoCards ==
    /\ outPath = "none"
    /\ outFile = "none"
    /\ dataPath = "none"
    /\ dataFile = "none"
    /\ cacheDir = "none"
    /\ cacheFile = "none"
NoInput == input = "none"
NoMetrics == metricsDir = "none" /\ recorded = <<>>
NoSanitizer == svgDir = "none"
NoTheme == themeFile = "none" /\ themeCache = "none" /\ themeLoads = 0
NoIncr == renderedFrom = "none"

-----------------------------------------------------------------------------
(* Bounds *)

\* longest text, in tokens, held by an SVG file or returned by a renderer
MaxTokens == 2

\* most members written in the JSON object of a data file
MaxPairs == 2

-----------------------------------------------------------------------------
(* Text of SVG files *)

\* "<svg" is any text that begins with the characters <svg, "</svg>" the
\* closing tag, "ws" a run of whitespace.
Tokens == {"ws", "<svg", "</svg>"}

RECURSIVE SeqsUpTo(_, _)
SeqsUpTo(S, n) ==
    IF n = 0 THEN {<<>>}
    ELSE LET shorter == SeqsUpTo(S, n - 1)
         IN  shorter \cup {Append(s, x) : s \in shorter, x \in S}

Texts == SeqsUpTo(Tokens, MaxTokens)

Absent == [kind |-> "absent", toks |-> <<>>]
\* bytes that are not text in UTF-8 (a PNG image, say)
Bytes == [kind |-> "bytes", toks |-> <<>>]
TextFile(t) == [kind |-> "text", toks |-> t]

SvgFiles == {Absent, Bytes} \cup {TextFile(t) : t \in Texts}

\* str.strip()
RECURSIVE lstrip(_)
lstrip(s) == IF s # <<>> /\ Head(s) = "ws" THEN lstrip(Tail(s)) ELSE s

RECURSIVE rstrip(_)
rstrip(s) ==
    IF s # <<>> /\ s[Len(s)] = "ws" THEN rstrip(SubSeq(s, 1, Len(s) - 1)) ELSE s

strip(s) == rstrip(lstrip(s))

\* s.startswith("<svg")
startswith_svg(s) == s # <<>> /\ Head(s) = "<svg"

\* "</svg>" in s
contains_close(s) == \E i \in 1..Len(s) : s[i] = "</svg>"

Bool(b) == IF b THEN "true" ELSE "false"

\* Path(p).suffix of the paths used
OutPaths == {"card.svg", "card.SVG", "card.txt"}

suffix(p) ==
    CASE p = "card.svg" -> ".svg"
      [] p = "card.SVG" -> ".SVG"
      [] p = "card.txt" -> ".txt"
      [] p = "data.json" -> ".json"
      [] p = "data.txt" -> ".txt"

\* fallback_exists(output_path).  utf8 says whether the locale's preferred
\* encoding, which Path.read_text() uses, is UTF-8: there undecodable bytes
\* raise UnicodeDecodeError (a ValueError, which the except clause does not
\* name); a single-byte encoding decodes them to text that is no SVG.
fallback_exists(output_path, file, utf8) ==
    IF file.kind = "absent" THEN "false"
    ELSE IF file.kind = "bytes" THEN (IF utf8 THEN "raise" ELSE "false")
    ELSE Bool(startswith_svg(strip(file.toks)) /\ contains_close(file.toks))

-----------------------------------------------------------------------------
(* Data files *)

\* The members a JSON object text of a data file is written from, in the
\* order written.
Members == {<<"a", "1">>, <<"a", "2">>, <<"b", "1">>}

\* the keys in sorted order (json.dumps(sort_keys=True))
KeyOrder == <<"a", "b">>

DataAbsent == [kind |-> "absent", members |-> <<>>, ws |-> FALSE]
\* bytes that are not text in UTF-8
DataBytes == [kind |-> "bytes", members |-> <<>>, ws |-> FALSE]
\* text that is not JSON
DataText == [kind |-> "text", members |-> <<>>, ws |-> FALSE]
\* the text of a JSON object: its members as written, and whether it is
\* written with whitespace between the tokens
DataJson(m, w) == [kind |-> "json", members |-> m, ws |-> w]

JsonFiles == {DataJson(m, w) : m \in SeqsUpTo(Members, MaxPairs), w \in BOOLEAN}

DataPaths == {"data.json", "data.txt"}

\* the contents given to a data file of each name
DataFiles(path) ==
    {DataAbsent, DataBytes, DataText} \cup
    (IF suffix(path) = ".json" THEN JsonFiles
     ELSE {DataJson(<<>>, w) : w \in BOOLEAN})

-----------------------------------------------------------------------------
(* generate_card_with_fallback *)

\* try_load_json(path): "ok" or the error.  open(path, "r") decodes with the
\* locale's preferred encoding; UnicodeDecodeError is not caught.
try_load_json(data, utf8) ==
    CASE data.kind = "absent" -> "not_found"
      [] data.kind = "bytes" -> (IF utf8 THEN "unicode_error" ELSE "invalid_json")
      [] data.kind = "text" -> "invalid_json"
      [] OTHER -> "ok"

\* try_validate_json(data, schema_name).  env.avail is JSONSCHEMA_AVAILABLE,
\* env.schema_found whether load_schema finds the schema document, env.valid
\* whether the data satisfies it.
try_validate_json(env) ==
    IF ~env.avail THEN "ok"
    ELSE IF ~env.schema_found THEN "schema_load_failed"
    ELSE IF env.valid THEN "ok"
    ELSE "validation_failed"

try_load_and_validate_json(data, env) ==
    LET error == try_load_json(data, env.utf8)
    IN  IF error # "ok" THEN error ELSE try_validate_json(env)

\* handle_failure with the exit forgotten: False is returned with or
\* without a fallback
handle_failure_never_exits(has_fallback) == "false"

\* the branch taken at every failure point: keep the fallback and return
\* False, or sys.exit(1)
handle_failure(has_fallback) ==
    IF has_fallback = "true" THEN "false" ELSE "exit1"

\* "not svg or not svg.strip().startswith('<svg')" is false
svg_looks_valid(gen) ==
    /\ gen.kind = "text"
    /\ gen.toks # <<>>
    /\ startswith_svg(strip(gen.toks))

\* write_svg with the OSError of a failed write swallowed: the step reports
\* success over the file it left
write_svg_swallows_error(file, svg, wr) ==
    CASE wr.kind = "ok" -> [ok |-> "true", file |-> TextFile(svg)]
      [] wr.kind = "open_error" -> [ok |-> "true", file |-> file]
      [] wr.kind = "write_error" ->
            [ok |-> "true", file |-> TextFile(SubSeq(svg, 1, wr.cut))]
      [] wr.kind = "killed" ->
            [ok |-> "killed", file |-> TextFile(SubSeq(svg, 1, wr.cut))]

\* The write step: mkdir, open(output, "w"), f.write(svg), close.
\* open(..., "w") truncates the file at outputPath itself; an OSError raised
\* by the write or the flush on close, or the death of the process, leaves
\* the first wr.cut tokens of svg in it.
write_svg(file, svg, wr) ==
    CASE wr.kind = "ok" -> [ok |-> "true", file |-> TextFile(svg)]
      [] wr.kind = "open_error" -> [ok |-> "oserror", file |-> file]
      [] wr.kind = "write_error" ->
            [ok |-> "oserror", file |-> TextFile(SubSeq(svg, 1, wr.cut))]
      [] wr.kind = "killed" ->
            [ok |-> "killed", file |-> TextFile(SubSeq(svg, 1, wr.cut))]

\* the environment of one run of a generator script
Envs(withBytes) ==
    { e \in [utf8 : BOOLEAN, schema_name : {"none", "weather"}, avail : BOOLEAN,
             schema_found : BOOLEAN, valid : BOOLEAN] :
        /\ (~withBytes => e.utf8)
        /\ (e.schema_name = "none" => e.avail /\ e.schema_found /\ e.valid)
        /\ (~e.avail => e.schema_found /\ e.valid)
        /\ (~e.schema_found => e.valid) }

\* what generator_func(data) does: raises an Exception, calls sys.exit (a
\* BaseException), returns None, or returns a string
NoGen == [kind |-> "raise", toks |-> <<>>]
Generators ==
    {[kind |-> k, toks |-> <<>>] : k \in {"raise", "sysexit", "none"}}
    \cup {[kind |-> "text", toks |-> t] : t \in Texts}

NoWrite == [kind |-> "ok", cut |-> 0]
WriteOutcomes(svg) ==
    {[kind |-> "ok", cut |-> 0], [kind |-> "open_error", cut |-> 0]}
    \cup {[kind |-> "write_error", cut |-> c] : c \in 0..(Len(svg) - 1)}
    \cup {[kind |-> "killed", cut |-> c] : c \in 0..Len(svg)}

Outcome(ret, fail, file, has_fallback, svg) ==
    [ret |-> ret, fail |-> fail, file |-> file, has_fallback |-> has_fallback,
     svg |-> svg]

\* the error of the load step, "ok" if there is none
load_error(data, env) ==
    IF env.schema_name # "none" THEN try_load_and_validate_json(data, env)
    ELSE try_load_json(data, env.utf8)

\* generate_card_with_fallback(card_type, output_path, json_path,
\* schema_name, generator_func): the value returned or the way the call
\* ends, the step that failed, and the file left at output_path.
generate_card_with_fallback(output_path, file, data, env, gen, wr) ==
    LET has_fallback == fallback_exists(output_path, file, env.utf8)
        error == load_error(data, env)
    IN  IF has_fallback = "raise"
        THEN Outcome("uncaught", "fallback_check", file, has_fallback, <<>>)
        ELSE IF error = "unicode_error"
        THEN Outcome("uncaught", error, file, has_fallback, <<>>)
        ELSE IF error # "ok"
        THEN Outcome(handle_failure(has_fallback), error, file, has_fallback, <<>>)
        ELSE IF gen.kind = "raise"
        THEN Outcome(handle_failure(has_fallback), "render_raise", file,
                     has_fallback, <<>>)
        ELSE IF gen.kind = "sysexit"
        THEN Outcome("exit1", "render_exit", file, has_fallback, <<>>)
        ELSE IF ~svg_looks_valid(gen)
        THEN Outcome(handle_failure(has_fallback), "bad_svg", file,
                     has_fallback, <<>>)
        ELSE LET w == write_svg(file, gen.toks, wr)
             IN  IF w.ok = "true"
                 THEN Outcome("true", "none", w.file, has_fallback, gen.toks)
                 ELSE IF w.ok = "killed"
                 THEN Outcome("killed", "interrupted", w.file, has_fallback, <<>>)
                 ELSE Outcome(handle_failure(has_fallback), "write", w.file,
                              has_fallback, <<>>)

\* the exit status of the script when the call ends this way and nothing
\* above it catches: sys.exit(1) and an uncaught exception both give 1
ExitCode(ret) ==
    CASE ret \in {"exit1", "uncaught"} -> 1
      [] ret \in {"true", "false"} -> 0
      [] OTHER -> -1

-----------------------------------------------------------------------------
(* Change detection: hashes and the hash cache *)

CacheKeys == {"k1", "k2"}

\* SHA-256 is taken to be injective on the contents hashed
sha256(content) == [h |-> "sha256", of |-> content]
\* None, and an exception leaving the function
None == [h |-> "none", of |-> DataAbsent]
Raised == [h |-> "raise", of |-> DataAbsent]

has_key(m, k) == \E i \in 1..Len(m) : m[i][1] = k

\* json.load keeps the last value written for a key
last_value(m, k) ==
    LET i == CHOOSE i \in 1..Len(m) :
                 m[i][1] = k /\ \A j \in (i + 1)..Len(m) : m[j][1] # k
    IN  m[i][2]

\* json.load of a number literal: an int, or a float when the literal has a
\* fraction or an exponent
parse_number(lit) ==
    CASE lit = "1" -> [type |-> "int", val |-> 1]
      [] lit = "2" -> [type |-> "int", val |-> 2]
      [] lit = "1.0" -> [type |-> "float", val |-> 1]
      [] lit = "1e0" -> [type |-> "float", val |-> 1]

\* json.dumps of a number: str of an int, repr of a float
dumps_number(n) ==
    CASE n.type = "int" /\ n.val = 1 -> "1"
      [] n.type = "int" /\ n.val = 2 -> "2"
      [] n.type = "float" /\ n.val = 1 -> "1.0"

\* json.dumps without sort_keys: the keys in the order json.load met them
normalized_keeps_order(m) ==
    LET firsts == SelectSeq([i \in 1..Len(m) |-> i],
                            LAMBDA i : \A j \in 1..(i - 1) : m[j][1] # m[i][1])
    IN  DataJson([i \in 1..Len(firsts) |->
                     <<m[firsts[i]][1],
                       dumps_number(parse_number(last_value(m, m[firsts[i]][1])))>>],
                 FALSE)

\* json.dumps(json.load(f), sort_keys=True, separators=(',', ':'))
normalized(m) ==
    LET keys == SelectSeq(KeyOrder, LAMBDA k : has_key(m, k))
    IN  DataJson([i \in 1..Len(keys) |->
                     <<keys[i], dumps_number(parse_number(last_value(m, keys[i])))>>],
                 FALSE)

compute_file_hash(data) ==
    IF data.kind = "absent" THEN None ELSE sha256(data)

\* open(json_path, 'r', encoding='utf-8'): bytes that are not UTF-8 raise
\* UnicodeDecodeError, which the except clause does not name
compute_json_hash(data) ==
    CASE data.kind = "absent" -> None
      [] data.kind = "bytes" -> Raised
      [] data.kind = "text" -> None
      [] OTHER -> sha256(normalized(data.members))

\* the first lines of has_data_changed and of update_hash_cache
current_hash(data_path, data) ==
    IF suffix(data_path) = ".json" THEN compute_json_hash(data)
    ELSE compute_file_hash(data)

NoEntries == [k \in CacheKeys |-> None]
CacheAbsent == [kind |-> "absent", entries |-> NoEntries]
\* bytes that are not text in UTF-8
CacheBytes == [kind |-> "bytes", entries |-> NoEntries]
\* text that is not JSON, an empty or half-written file included
CacheText == [kind |-> "text", entries |-> NoEntries]
\* JSON that is not an object, [] say
CacheList == [kind |-> "list", entries |-> NoEntries]
\* a JSON object {cache_key: hash}; a key it does not hold maps to None
CacheObject(entries) == [kind |-> "object", entries |-> entries]

\* the files the change detector reads and writes
FS(out, data, dir, cache) == [out |-> out, data |-> data, dir |-> dir, cache |-> cache]

\* load_hash_cache(cache_path): a dict, another JSON value, or an exception
load_hash_cache(cache) ==
    CASE cache.kind \in {"absent", "text"} -> [kind |-> "dict", entries |-> NoEntries]
      [] cache.kind = "bytes" -> [kind |-> "raise", entries |-> NoEntries]
      [] cache.kind = "list" -> [kind |-> "list", entries |-> NoEntries]
      [] OTHER -> [kind |-> "dict", entries |-> cache.entries]

\* the ways the file system answers save_hash_cache
SaveOutcomes(dir) ==
    {"ok", "open_error", "write_error"} \cup
    (IF dir = "absent" THEN {"mkdir_error"} ELSE {})

\* save_hash_cache(cache_path, cache_data).  mkdir stands outside the try: it
\* raises when a file is in the directory's place or the directory cannot be
\* made.  open(..., 'w') truncates; an OSError from the write leaves text
\* that is not JSON.
save_hash_cache(fs, entries, io) ==
    IF fs.dir = "file" \/ (fs.dir = "absent" /\ io = "mkdir_error")
    THEN [ret |-> "raise", fs |-> fs]
    ELSE LET made == [fs EXCEPT !.dir = "dir"]
         IN  CASE io = "open_error" -> [ret |-> "none", fs |-> made]
               [] io = "write_error" ->
                     [ret |-> "none", fs |-> [made EXCEPT !.cache = CacheText]]
               [] OTHER ->
                     [ret |-> "none", fs |-> [made EXCEPT !.cache = CacheObject(entries)]]

\* has_data_changed hashing the raw bytes whatever the suffix, while
\* update_hash_cache stores the hash of the normalized JSON
has_data_changed_raw_hash(fs, data_path, cache_key) ==
    LET hash == compute_file_hash(fs.data)
        cache == load_hash_cache(fs.cache)
    IN  IF hash = None THEN [ret |-> "true", fs |-> fs]
        ELSE IF cache.kind # "dict" THEN [ret |-> "raise", fs |-> fs]
        ELSE [ret |-> Bool(cache.entries[cache_key] # hash), fs |-> fs]

\* has_data_changed(data_path, cache_path, cache_key)
has_data_changed(fs, data_path, cache_key) ==
    LET hash == current_hash(data_path, fs.data)
        cache == load_hash_cache(fs.cache)
    IN  IF hash = Raised THEN [ret |-> "raise", fs |-> fs]
        ELSE IF hash = None THEN [ret |-> "true", fs |-> fs]
        ELSE IF cache.kind # "dict" THEN [ret |-> "raise", fs |-> fs]
        ELSE [ret |-> Bool(cache.entries[cache_key] # hash), fs |-> fs]

\* update_hash_cache(data_path, cache_path, cache_key); status tells what
\* became of the hash
update_hash_cache(fs, data_path, cache_key, io) ==
    LET hash == current_hash(data_path, fs.data)
        cache == load_hash_cache(fs.cache)
    IN  IF hash = Raised THEN [ret |-> "raise", status |-> "raised", fs |-> fs]
        ELSE IF hash = None THEN [ret |-> "none", status |-> "skipped", fs |-> fs]
        ELSE IF cache.kind # "dict"
        THEN [ret |-> "raise", status |-> "raised", fs |-> fs]
        ELSE LET saved == save_hash_cache(
                              fs, [cache.entries EXCEPT ![cache_key] = hash], io)
             IN  [ret |-> saved.ret,
                  status |-> IF saved.ret = "raise" THEN "raised"
                             ELSE IF io = "ok" THEN "stored" ELSE "save_failed",
                  fs |-> saved.fs]

\* should_regenerate_svg recording the hash it has just compared, so that
\* the next call skips
should_regenerate_svg_updates_cache(fs, data_path, cache_key, force) ==
    IF force THEN [ret |-> "true", fs |-> fs]
    ELSE IF fs.out.kind = "absent" THEN [ret |-> "true", fs |-> fs]
    ELSE IF fs.data.kind = "absent" THEN [ret |-> "true", fs |-> fs]
    ELSE LET changed == has_data_changed(fs, data_path, cache_key)
         IN  IF changed.ret = "true"
             THEN [ret |-> "true",
                   fs |-> update_hash_cache(fs, data_path, cache_key, "ok").fs]
             ELSE changed

\* should_regenerate_svg without the test for a missing SVG
should_regenerate_svg_ignores_svg(fs, data_path, cache_key, force) ==
    IF force THEN [ret |-> "true", fs |-> fs]
    ELSE IF fs.data.kind = "absent" THEN [ret |-> "true", fs |-> fs]
    ELSE has_data_changed(fs, data_path, cache_key)

\* should_regenerate_svg(data_path, svg_path, cache_path, cache_key, force)
should_regenerate_svg(fs, data_path, cache_key, force) ==
    IF force THEN [ret |-> "true", fs |-> fs]
    ELSE IF fs.out.kind = "absent" THEN [ret |-> "true", fs |-> fs]
    ELSE IF fs.data.kind = "absent" THEN [ret |-> "true", fs |-> fs]
    ELSE has_data_changed(fs, data_path, cache_key)

-----------------------------------------------------------------------------
(* State *)

NoCall ==
    [op |-> "none", key |-> "none", force |-> FALSE, ret |-> "none",
     fail |-> "none", has_fallback |-> "none", svg |-> <<>>]

CurrentFS == FS(outFile, dataFile, cacheDir, cacheFile)

SetFS(fs) ==
    /\ outFile' = fs.out
    /\ dataFile' = fs.data
    /\ cacheDir' = fs.dir
    /\ cacheFile' = fs.cache

-----------------------------------------------------------------------------
(* The fallback-safe orchestrator: one run of a generator script per step *)

InitGen ==
    /\ outPath \in OutPaths
    /\ outFile \in SvgFiles
    /\ dataPath = "data.json"
    /\ dataFile \in {DataAbsent, DataBytes, DataText, DataJson(<<>>, FALSE)}
    /\ cacheDir = "dir"
    /\ cacheFile = CacheAbsent
    /\ call = NoCall
    /\ NoInput /\ NoMetrics /\ NoSanitizer /\ NoTheme /\ NoIncr

\* generate_card_with_fallback is called.  The renderer and the write are
\* drawn only when the call gets to them.
GenerateCard ==
    \E env \in Envs(outFile.kind = "bytes" \/ dataFile.kind = "bytes") :
      LET early == \/ fallback_exists(outPath, outFile, env.utf8) = "raise"
                   \/ load_error(dataFile, env) # "ok"
      IN  \E gen \in (IF early THEN {NoGen} ELSE Generators) :
            \E wr \in (IF early \/ ~svg_looks_valid(gen) THEN {NoWrite}
                       ELSE WriteOutcomes(gen.toks)) :
              LET r == generate_card_with_fallback(
                           outPath, outFile, dataFile, env, gen, wr)
              IN  /\ outFile' = r.file
                  /\ call' = [NoCall EXCEPT !.op = "generate_card_with_fallback",
                                            !.ret = r.ret,
                                            !.fail = r.fail,
                                            !.has_fallback = r.has_fallback,
                                            !.svg = r.svg]
                  /\ UNCHANGED <<outPath, dataPath, dataFile, cacheDir, cacheFile,
                                 otherThanCards>>

\* fallback_exists is called on the output path
CheckFallback ==
    \E utf8 \in BOOLEAN :
        /\ call' = [NoCall EXCEPT !.op = "fallback_exists",
                                  !.ret = fallback_exists(outPath, outFile, utf8)]
        /\ UNCHANGED <<cardVars, otherThanCards>>

NextGen == GenerateCard \/ CheckFallback

SpecGen == InitGen /\ [][NextGen]_vars

-----------------------------------------------------------------------------
(* The change detector: one call per step, and the fetch step that rewrites
   the data file between them *)

ValidSvg == TextFile(<<"<svg", "</svg>">>)

InitCache ==
    /\ outPath = "card.svg"
    /\ outFile \in {Absent, ValidSvg}
    /\ dataPath \in DataPaths
    /\ dataFile \in DataFiles(dataPath)
    /\ cacheDir \in {"dir", "absent", "file"}
    /\ cacheFile \in IF cacheDir = "dir"
                     THEN {CacheAbsent, CacheBytes, CacheText, CacheList,
                           CacheObject(NoEntries)}
                     ELSE {CacheAbsent}
    /\ call = NoCall
    /\ NoInput /\ NoMetrics /\ NoSanitizer /\ NoTheme /\ NoIncr

\* an external fetch step writes, or removes, the data file
FetchData ==
    \E d \in DataFiles(dataPath) \ {dataFile} :
        /\ dataFile' = d
        /\ call' = [NoCall EXCEPT !.op = "fetch"]
        /\ UNCHANGED <<outPath, outFile, dataPath, cacheDir, cacheFile,
                     otherThanCards>>

HasDataChanged ==
    \E k \in CacheKeys :
        LET r == has_data_changed(CurrentFS, dataPath, k)
        IN  /\ SetFS(r.fs)
            /\ call' = [NoCall EXCEPT !.op = "has_data_changed", !.key = k,
                                      !.ret = r.ret]
            /\ UNCHANGED <<outPath, dataPath, otherThanCards>>

UpdateHashCache ==
    \E k \in CacheKeys, io \in SaveOutcomes(cacheDir) :
        LET r == update_hash_cache(CurrentFS, dataPath, k, io)
        IN  /\ SetFS(r.fs)
            /\ call' = [NoCall EXCEPT !.op = "update_hash_cache", !.key = k,
                                      !.ret = r.ret, !.fail = r.status]
            /\ UNCHANGED <<outPath, dataPath, otherThanCards>>

ShouldRegenerateSvg ==
    \E k \in CacheKeys, force \in BOOLEAN :
        LET r == should_regenerate_svg(CurrentFS, dataPath, k, force)
        IN  /\ SetFS(r.fs)
            /\ call' = [NoCall EXCEPT !.op = "should_regenerate_svg", !.key = k,
                                      !.force = force, !.ret = r.ret]
            /\ UNCHANGED <<outPath, dataPath, otherThanCards>>

NextCache == FetchData \/ HasDataChanged \/ UpdateHashCache \/ ShouldRegenerateSvg

SpecCache == InitCache /\ [][NextCache]_vars

-----------------------------------------------------------------------------
(* Claims about generate_card_with_fallback and fallback_exists (SpecGen) *)

Generated == call.op = "generate_card_with_fallback"

\* the SVG shape check: starts with <svg and contains </svg>
ShapeOk(file) ==
    /\ file.kind = "text"
    /\ startswith_svg(strip(file.toks))
    /\ contains_close(file.toks)

\* C1: with a valid SVG at outputPath, a call that fails before the write
\* step (input missing, input not valid JSON, schema validation failure,
\* renderer exception, renderer output not starting with <svg) leaves the
\* file as it was and returns false.
C1_FallbackPreserved ==
    [][ ( /\ call'.op = "generate_card_with_fallback"
          /\ call'.has_fallback = "true"
          /\ call'.fail \in {"not_found", "invalid_json", "unicode_error",
                             "validation_failed", "render_raise", "bad_svg"} )
        => (outFile' = outFile /\ call'.ret = "false") ]_vars

\* C2: the write to outputPath is atomic: when a valid fallback existed and
\* the write step fails with an I/O error or is interrupted, outputPath
\* holds the bytes it held before the call.
C2_AtomicWrite ==
    [][ ( /\ call'.op = "generate_card_with_fallback"
          /\ call'.has_fallback = "true"
          /\ call'.fail \in {"write", "interrupted"} )
        => outFile' = outFile ]_vars

\* C3: with no file at outputPath and an input that is missing, unparsable
\* or fails schema validation, the process ends with exit code 1 and there
\* is still no file at outputPath.
C3_NoFallbackFatal ==
    [][ ( /\ outFile.kind = "absent"
          /\ call'.op = "generate_card_with_fallback"
          /\ call'.fail \in {"not_found", "invalid_json", "unicode_error",
                             "validation_failed"} )
        => (ExitCode(call'.ret) = 1 /\ outFile'.kind = "absent") ]_vars

C3_Witness ==
    /\ Generated
    /\ call.fail = "validation_failed"
    /\ call.has_fallback = "false"
    /\ call.ret = "exit1"
    /\ outFile.kind = "absent"

\* C4: after any call that returns, true or false, the file at outputPath
\* satisfies the SVG shape check (starts with <svg, contains </svg>).
C4_ShapeOnDisk ==
    (Generated /\ call.ret \in {"true", "false"}) => ShapeOk(outFile)

\* C5: the call returns true only if the renderer's output was written to
\* outputPath as the new content; no path on which a step failed returns
\* true.
C5_TrueOnlyIfWritten ==
    Generated =>
        /\ (call.ret = "true" =>
                /\ call.fail = "none"
                /\ call.svg # <<>>
                /\ outFile = TextFile(call.svg))
        /\ (call.fail # "none" => call.ret # "true")

C5_Witness ==
    /\ Generated
    /\ call.ret = "true"
    /\ call.has_fallback = "true"
    /\ outFile = TextFile(call.svg)

\* C6: fallback_exists(path) is true exactly when the file exists, has an
\* .svg extension in any letter case, and its stripped text starts with
\* <svg and contains </svg>; for every other file, binary content
\* included, it returns false without raising.
C6_FallbackExistsExactly ==
    call.op = "fallback_exists" =>
        call.ret = Bool(suffix(outPath) \in {".svg", ".SVG"} /\ ShapeOk(outFile))

-----------------------------------------------------------------------------
(* Claims about the change detector (SpecCache) *)

\* the hash of the data file as it is now
CurrentHash == current_hash(dataPath, dataFile)

\* the value the cache file stores under key k is the current hash
StoredCurrent(k) ==
    /\ CurrentHash.h = "sha256"
    /\ cacheFile.kind = "object"
    /\ cacheFile.entries[k] = CurrentHash

\* C7: after one update_hash_cache(data, cache, key) call and no change to
\* the data file, should_regenerate_svg(..., force=false) with the SVG
\* present returns false, and returns false again however often it is
\* called.
C7_SkipAfterUpdate ==
    [][ ( /\ \/ call.op = "update_hash_cache"
             \/ /\ call.op = "should_regenerate_svg"
                /\ ~call.force
                /\ call.ret = "false"
          /\ call'.op = "should_regenerate_svg"
          /\ call'.key = call.key
          /\ ~call'.force
          /\ outFile.kind # "absent" )
        => call'.ret = "false" ]_vars

\* C7 as amended: the same after an update_hash_cache call that computed
\* the hash of the data file and wrote the cache file.
C7_SkipAfterStoredUpdate ==
    [][ ( /\ \/ call.op = "update_hash_cache" /\ call.fail = "stored"
             \/ /\ call.op = "should_regenerate_svg"
                /\ ~call.force
                /\ call.ret = "false"
          /\ call'.op = "should_regenerate_svg"
          /\ call'.key = call.key
          /\ ~call'.force
          /\ outFile.kind # "absent" )
        => call'.ret = "false" ]_vars

C7_Witness ==
    /\ call.op = "should_regenerate_svg"
    /\ ~call.force
    /\ call.ret = "false"
    /\ outFile.kind # "absent"
    /\ dataFile.ws
    /\ StoredCurrent(call.key)

\* C8: should_regenerate_svg leaves the hash cache file, the cache
\* directory, the data file and the SVG file as they were, whatever its
\* input and its result.
C8_ShouldRegenerateReadsOnly ==
    [][ call'.op = "should_regenerate_svg"
        => UNCHANGED <<outFile, dataFile, cacheDir, cacheFile>> ]_vars

C8_Witness ==
    /\ call.op = "should_regenerate_svg"
    /\ ~call.force
    /\ call.ret = "true"
    /\ outFile.kind # "absent"
    /\ dataFile.kind = "json"
    /\ cacheDir = "absent"
    /\ cacheFile.kind = "absent"

\* C9: should_regenerate_svg returns true when force is set, true when the
\* SVG is missing, true when the data file is missing, and otherwise what
\* has_data_changed returns for the same data path, cache path and key.
C9_RegenerateDecision ==
    call.op = "should_regenerate_svg" =>
        call.ret = IF call.force THEN "true"
                   ELSE IF outFile.kind = "absent" THEN "true"
                   ELSE IF dataFile.kind = "absent" THEN "true"
                   ELSE has_data_changed(CurrentFS, dataPath, call.key).ret

C9_Witness ==
    /\ call.op = "should_regenerate_svg"
    /\ ~call.force
    /\ outFile.kind = "absent"
    /\ call.ret = "true"
    /\ StoredCurrent(call.key)

\* C10: has_data_changed returns false only when the hash of the data file
\* can be computed and equals the value stored under cache_key; it returns
\* true when the cache file is missing, when the key is missing, when the
\* stored value differs, and when the hash cannot be computed.
C10_ChangedExactly ==
    call.op = "has_data_changed" =>
        /\ (call.ret = "false" => StoredCurrent(call.key))
        /\ ( ( \/ cacheFile.kind = "absent"
               \/ cacheFile.kind = "object" /\ cacheFile.entries[call.key] # CurrentHash
               \/ CurrentHash.h # "sha256" )
             => call.ret = "true" )

\* C11: update_hash_cache never raises: a failure to read, merge or persist
\* the cache file (unwritable location, unreadable or malformed cache
\* content) is at most logged and the call returns normally.
C11_UpdateNeverRaises ==
    call.op = "update_hash_cache" => call.ret # "raise"

-----------------------------------------------------------------------------
(* compute_json_hash on pairs of JSON documents (SpecHash) *)

\* the members the documents compared are written from: the number 1 is
\* also spelled 1.0 and 1e0
HashMembers == Members \cup {<<"a", "1.0">>, <<"a", "1e0">>}

HashDocs == {DataJson(m, w) : m \in SeqsUpTo(HashMembers, MaxPairs), w \in BOOLEAN}

NoHashes == [op |-> "none", ret |-> <<None, None>>]

InitHash ==
    /\ input \in [d1 : HashDocs, d2 : HashDocs]
    /\ call = NoHashes
    /\ NoCards /\ NoMetrics /\ NoSanitizer /\ NoTheme /\ NoIncr

\* compute_json_hash is called on each of the two documents
ComputeJsonHash ==
    /\ call' = [op |-> "compute_json_hash",
                ret |-> <<compute_json_hash(input.d1), compute_json_hash(input.d2)>>]
    /\ UNCHANGED <<input, otherThanPure>>

NextHash == ComputeJsonHash

SpecHash == InitHash /\ [][NextHash]_vars

\* the object json.load returns: the value of each key it holds
loaded(d) ==
    [k \in {d.members[i][1] : i \in 1..Len(d.members)} |->
        parse_number(last_value(d.members, k))]

\* d1 == d2 on the loaded objects: the same keys, and under each key
\* numbers that compare equal (1 == 1.0)
json_equal(d1, d2) ==
    /\ DOMAIN loaded(d1) = DOMAIN loaded(d2)
    /\ \A k \in DOMAIN loaded(d1) : loaded(d1)[k].val = loaded(d2)[k].val

\* the same, with an int and a float taken for different values
json_same(d1, d2) == loaded(d1) = loaded(d2)

-----------------------------------------------------------------------------
(* Workflow metrics: scripts/lib/metrics.py *)

\* run_history keeps this many entries
HistoryLimit == 20

\* the first MaxVaried recorded runs are drawn from all of RunArgs, the
\* later ones are plain successful runs
MaxVaried == 3

\* most runs recorded beyond HistoryLimit
MaxExtra == 2

\* None, and a value that is present
NoValue == [set |-> FALSE, val |-> 0]
Some(v) == [set |-> TRUE, val |-> v]

\* the structure load_workflow_metrics returns when there is nothing to
\* load.  api_calls is the count under the one endpoint used, 0 when the
\* endpoint is not in the dictionary.
EmptyMetrics ==
    [total_runs |-> 0, successful_runs |-> 0, failed_runs |-> 0,
     consecutive_failures |-> 0, last_success |-> NoValue,
     last_failure |-> NoValue, last_run_time_seconds |-> NoValue,
     avg_run_time_seconds |-> NoValue, api_calls |-> 0, run_history |-> <<>>]

\* contents of the metrics file and of its .tmp neighbour
MetricsAbsent == [kind |-> "absent", m |-> EmptyMetrics]
\* text that is not JSON, a half-written record included
MetricsText == [kind |-> "text", m |-> EmptyMetrics]
\* bytes that are not text in the locale's encoding
MetricsBytes == [kind |-> "bytes", m |-> EmptyMetrics]
\* JSON without the counters, {} say
MetricsForeign == [kind |-> "foreign", m |-> EmptyMetrics]
\* json.dump(metrics, f, indent=2)
MetricsRecord(m) == [kind |-> "record", m |-> m]

MetricsDir(file, tmp) == [file |-> file, tmp |-> tmp]

\* load_workflow_metrics(workflow_name)
load_workflow_metrics(file) ==
    CASE file.kind \in {"absent", "text"} -> [ret |-> "ok", m |-> EmptyMetrics]
      [] file.kind = "record" -> [ret |-> "ok", m |-> file.m]
      [] file.kind = "foreign" -> [ret |-> "foreign", m |-> EmptyMetrics]
      [] OTHER -> [ret |-> "raise", m |-> EmptyMetrics]

\* what the file system does to one save: the step that fails, and whether
\* the unlink of the clean-up fails too
SaveSteps == {"ok", "open_error", "write_error", "reparse_error", "replace_error"}
SaveFaults ==
    {[step |-> "ok", unlink |-> "ok"], [step |-> "mkdir_error", unlink |-> "ok"]}
    \cup [step : SaveSteps \ {"ok"}, unlink : {"ok", "error"}]

\* the temp file when the step fails: open(temp_file, 'w') truncates it
\* once it has opened it
temp_after(tmp, metrics, step) ==
    CASE step = "open_error" -> tmp
      [] step \in {"write_error", "reparse_error"} -> MetricsText
      [] OTHER -> MetricsRecord(metrics)

\* save_workflow_metrics writing the metrics file itself, without the temp
\* file and the rename
save_workflow_metrics_in_place(dir, metrics, io) ==
    IF io.step = "mkdir_error" THEN [ret |-> "uncaught", dir |-> dir]
    ELSE IF io.step = "ok"
    THEN [ret |-> "none", dir |-> MetricsDir(MetricsRecord(metrics), dir.tmp)]
    ELSE [ret |-> "exit1",
          dir |-> MetricsDir(temp_after(dir.file, metrics, io.step), dir.tmp)]

\* save_workflow_metrics(workflow_name, metrics): write the temp file, load
\* it again, rename it over the metrics file; on IOError, OSError or
\* JSONDecodeError unlink the temp file if it exists, ignoring an OSError of
\* the unlink, and sys.exit(1).  get_metrics_dir's mkdir is outside the try.
save_workflow_metrics(dir, metrics, io) ==
    IF io.step = "mkdir_error" THEN [ret |-> "uncaught", dir |-> dir]
    ELSE IF io.step = "ok"
    THEN [ret |-> "none", dir |-> MetricsDir(MetricsRecord(metrics), MetricsAbsent)]
    ELSE LET left == temp_after(dir.tmp, metrics, io.step)
         IN  [ret |-> "exit1",
              dir |-> MetricsDir(dir.file,
                                 IF left.kind # "absent" /\ io.unlink = "ok"
                                 THEN MetricsAbsent ELSE left)]

\* the counters with a failed run left out of total_runs
count_run_forgets_failed(m, success, timestamp) ==
    IF success
    THEN [m EXCEPT !.total_runs = @ + 1,
                   !.successful_runs = @ + 1,
                   !.consecutive_failures = 0,
                   !.last_success = Some(timestamp)]
    ELSE [m EXCEPT !.failed_runs = @ + 1,
                   !.consecutive_failures = @ + 1,
                   !.last_failure = Some(timestamp)]

\* the counters with the streak of failures kept across a success
count_run_keeps_streak(m, success, timestamp) ==
    LET counted == [m EXCEPT !.total_runs = @ + 1]
    IN  IF success
        THEN [counted EXCEPT !.successful_runs = @ + 1,
                             !.last_success = Some(timestamp)]
        ELSE [counted EXCEPT !.failed_runs = @ + 1,
                             !.consecutive_failures = @ + 1,
                             !.last_failure = Some(timestamp)]

\* record_workflow_run, "Update counters"
count_run(m, success, timestamp) ==
    LET counted == [m EXCEPT !.total_runs = @ + 1]
    IN  IF success
        THEN [counted EXCEPT !.successful_runs = @ + 1,
                             !.consecutive_failures = 0,
                             !.last_success = Some(timestamp)]
        ELSE [counted EXCEPT !.failed_runs = @ + 1,
                             !.consecutive_failures = @ + 1,
                             !.last_failure = Some(timestamp)]

\* record_workflow_run, "Update run time metrics": alpha = 0.2.  The run
\* times drawn are all equal, so the average is exact.
time_run(m, run_time_seconds) ==
    IF ~run_time_seconds.set THEN m
    ELSE [m EXCEPT !.last_run_time_seconds = run_time_seconds,
                   !.avg_run_time_seconds =
                       IF ~@.set THEN run_time_seconds
                       ELSE Some((2 * run_time_seconds.val + 8 * @.val) \div 10)]

\* record_workflow_run, "Update API call metrics"
count_api_calls(m, api_calls) == [m EXCEPT !.api_calls = @ + api_calls]

\* the truncation keeping the oldest entries, run_history[:20]
truncate_history_keeps_oldest(run_history) ==
    IF Len(run_history) > HistoryLimit
    THEN SubSeq(run_history, 1, HistoryLimit)
    ELSE run_history

\* run_history[-20:] when len(run_history) > 20
truncate_history(run_history) ==
    IF Len(run_history) > HistoryLimit
    THEN SubSeq(run_history, Len(run_history) - HistoryLimit + 1, Len(run_history))
    ELSE run_history

\* the entry of run_history for one run
run_record(args, timestamp) ==
    [timestamp |-> timestamp, success |-> args.success,
     run_time_seconds |-> args.run_time_seconds,
     error_message |-> args.error_message]

\* record_workflow_run(workflow_name, success, run_time_seconds, api_calls,
\* error_message) at clock reading timestamp
record_workflow_run(dir, args, timestamp, io) ==
    LET loaded_metrics == load_workflow_metrics(dir.file)
    IN  IF io.step = "mkdir_error" \/ loaded_metrics.ret # "ok"
        THEN [ret |-> "uncaught", dir |-> dir]
        ELSE LET counted == count_api_calls(
                                time_run(count_run(loaded_metrics.m, args.success,
                                                   timestamp),
                                         args.run_time_seconds),
                                args.api_calls)
                 metrics == [counted EXCEPT !.run_history =
                                truncate_history(
                                    Append(@, run_record(args, timestamp)))]
                 saved == save_workflow_metrics(dir, metrics, io)
             IN  [ret |-> IF saved.ret = "none" THEN "ok" ELSE saved.ret,
                  dir |-> saved.dir]

\* check_failure_threshold asking for more than threshold failures
check_failure_threshold_strict(dir, threshold) ==
    LET loaded_metrics == load_workflow_metrics(dir.file)
    IN  IF loaded_metrics.ret = "raise" THEN [ret |-> "uncaught", dir |-> dir]
        ELSE [ret |-> Bool(loaded_metrics.m.consecutive_failures > threshold),
              dir |-> dir]

\* check_failure_threshold resetting the count it has just read
check_failure_threshold_resets(dir, threshold) ==
    LET loaded_metrics == load_workflow_metrics(dir.file)
    IN  IF loaded_metrics.ret = "raise" THEN [ret |-> "uncaught", dir |-> dir]
        ELSE [ret |-> Bool(loaded_metrics.m.consecutive_failures >= threshold),
              dir |-> MetricsDir(
                          MetricsRecord([loaded_metrics.m EXCEPT
                                             !.consecutive_failures = 0]),
                          dir.tmp)]

\* check_failure_threshold(workflow_name, threshold);
\* metrics.get("consecutive_failures", 0) is 0 when the key is missing
check_failure_threshold(dir, threshold) ==
    LET loaded_metrics == load_workflow_metrics(dir.file)
    IN  IF loaded_metrics.ret = "raise" THEN [ret |-> "uncaught", dir |-> dir]
        ELSE [ret |-> Bool(loaded_metrics.m.consecutive_failures >= threshold),
              dir |-> dir]

\* reset_failure_count(workflow_name).  Assigning the key works on any JSON
\* object, so a foreign object is written back with the key added.
reset_failure_count(dir, io) ==
    LET loaded_metrics == load_workflow_metrics(dir.file)
    IN  IF io.step = "mkdir_error" \/ loaded_metrics.ret = "raise"
        THEN [ret |-> "uncaught", dir |-> dir]
        ELSE IF loaded_metrics.ret = "foreign"
        THEN LET saved == save_workflow_metrics(dir, EmptyMetrics, io)
             IN  [ret |-> IF saved.ret = "none" THEN "ok" ELSE saved.ret,
                  dir |-> IF saved.ret = "none"
                          THEN MetricsDir(MetricsForeign, saved.dir.tmp)
                          ELSE saved.dir]
        ELSE LET saved == save_workflow_metrics(
                              dir, [loaded_metrics.m EXCEPT !.consecutive_failures = 0], io)
             IN  [ret |-> IF saved.ret = "none" THEN "ok" ELSE saved.ret,
                  dir |-> saved.dir]

-----------------------------------------------------------------------------
(* The metrics of one workflow: one call per step (SpecMetrics) *)

\* a successful run without a run time
PlainRun ==
    [success |-> TRUE, run_time_seconds |-> NoValue, api_calls |-> 0,
     error_message |-> "none"]

\* the arguments of record-workflow-metrics.py: a timed successful run
\* with one API call, a plain successful run, a failed run
RunArgs ==
    {[success |-> TRUE, run_time_seconds |-> Some(10), api_calls |-> 1,
      error_message |-> "none"],
     PlainRun,
     [success |-> FALSE, run_time_seconds |-> NoValue, api_calls |-> 0,
      error_message |-> "boom"]}

\* the thresholds check_failure_threshold is asked about (3 is the default)
Thresholds == {1, 2, 3}

NoMetricsCall ==
    [op |-> "none", ret |-> "none", args |-> PlainRun, timestamp |-> 0,
     io |-> [step |-> "ok", unlink |-> "ok"], threshold |-> 0]

InitMetrics ==
    /\ metricsDir = MetricsDir(MetricsAbsent, MetricsAbsent)
    /\ recorded = <<>>
    /\ call = NoMetricsCall
    /\ NoCards /\ NoInput /\ NoSanitizer /\ NoTheme /\ NoIncr

\* record-workflow-metrics.py runs once.  The clock reads the number of
\* this run; a run that is not saved is not counted in recorded.
RecordWorkflowRun ==
    /\ Len(recorded) < HistoryLimit + MaxExtra
    /\ \E args \in (IF Len(recorded) < MaxVaried THEN RunArgs ELSE {PlainRun}),
          io \in SaveFaults :
         LET timestamp == Len(recorded) + 1
             r == record_workflow_run(metricsDir, args, timestamp, io)
         IN  /\ metricsDir' = r.dir
             /\ recorded' = IF r.ret = "ok"
                            THEN Append(recorded, run_record(args, timestamp))
                            ELSE recorded
             /\ call' = [NoMetricsCall EXCEPT !.op = "record_workflow_run",
                                              !.ret = r.ret, !.args = args,
                                              !.timestamp = timestamp, !.io = io]
             /\ UNCHANGED otherThanMetrics

ResetFailureCount ==
    \E io \in SaveFaults :
        LET r == reset_failure_count(metricsDir, io)
        IN  /\ metricsDir' = r.dir
            /\ call' = [NoMetricsCall EXCEPT !.op = "reset_failure_count",
                                             !.ret = r.ret, !.io = io]
            /\ UNCHANGED <<recorded, otherThanMetrics>>

CheckFailureThreshold ==
    \E threshold \in Thresholds :
        LET r == check_failure_threshold(metricsDir, threshold)
        IN  /\ metricsDir' = r.dir
            /\ call' = [NoMetricsCall EXCEPT !.op = "check_failure_threshold",
                                             !.ret = r.ret, !.threshold = threshold]
            /\ UNCHANGED <<recorded, otherThanMetrics>>

NextMetrics == RecordWorkflowRun \/ ResetFailureCount \/ CheckFailureThreshold

SpecMetrics == InitMetrics /\ [][NextMetrics]_vars

-----------------------------------------------------------------------------
(* Claims about the workflow metrics (SpecMetrics) *)

\* the persisted record
Persisted == metricsDir.file.m

\* C13: each record_workflow_run call increments total_runs by exactly 1
\* and either (success) increments successful_runs by 1, sets
\* consecutive_failures to 0 and stamps last_success, or (failure)
\* increments failed_runs and consecutive_failures by 1 and stamps
\* last_failure; the counters of the other branch are left unchanged.
C13_CountersStep ==
    [][ (call'.op = "record_workflow_run" /\ call'.ret = "ok") =>
          LET before == load_workflow_metrics(metricsDir.file).m
              after == metricsDir'.file.m
          IN  /\ metricsDir'.file.kind = "record"
              /\ after.total_runs = before.total_runs + 1
              /\ IF call'.args.success
                 THEN /\ after.successful_runs = before.successful_runs + 1
                      /\ after.consecutive_failures = 0
                      /\ after.last_success = Some(call'.timestamp)
                      /\ after.failed_runs = before.failed_runs
                      /\ after.last_failure = before.last_failure
                 ELSE /\ after.failed_runs = before.failed_runs + 1
                      /\ after.consecutive_failures = before.consecutive_failures + 1
                      /\ after.last_failure = Some(call'.timestamp)
                      /\ after.successful_runs = before.successful_runs
                      /\ after.last_success = before.last_success ]_vars

C13_Witness ==
    /\ call.op = "record_workflow_run"
    /\ call.ret = "ok"
    /\ call.args.success
    /\ call.timestamp = 3
    /\ Persisted.total_runs = 3
    /\ Persisted.failed_runs = 2
    /\ Persisted.consecutive_failures = 0
    /\ Persisted.last_failure = Some(2)
    /\ Persisted.last_success = Some(3)

\* C14: saving a metrics record never replaces the previous metrics file
\* with unparsable or partial content; when the write to the temp file,
\* its re-parse or the rename fails, the previous file is left intact, the
\* temp file is deleted and the process ends with exit code 1.
C14_SafeSave ==
    [][ call'.op \in {"record_workflow_run", "reset_failure_count"} =>
          /\ (metricsDir'.file # metricsDir.file => metricsDir'.file.kind = "record")
          /\ (call'.io.step \in SaveSteps \ {"ok"} =>
                /\ metricsDir'.file = metricsDir.file
                /\ metricsDir'.tmp.kind = "absent"
                /\ ExitCode(call'.ret) = 1) ]_vars

\* C14 as amended: the same, the temp file being deleted unless the unlink
\* fails too, in which case it stays as the failed save left it.
C14_SafeSaveBestEffortCleanup ==
    [][ call'.op \in {"record_workflow_run", "reset_failure_count"} =>
          /\ (metricsDir'.file # metricsDir.file => metricsDir'.file.kind = "record")
          /\ (call'.io.step \in SaveSteps \ {"ok"} =>
                /\ metricsDir'.file = metricsDir.file
                /\ (call'.io.unlink = "ok" => metricsDir'.tmp.kind = "absent")
                /\ ExitCode(call'.ret) = 1) ]_vars

C14_Witness ==
    /\ call.op = "record_workflow_run"
    /\ call.io = [step |-> "replace_error", unlink |-> "ok"]
    /\ call.ret = "exit1"
    /\ metricsDir.file.kind = "record"
    /\ Persisted.total_runs = Len(recorded)
    /\ metricsDir.tmp.kind = "absent"

\* C15: after any sequence of record_workflow_run calls run_history has at
\* most 20 entries and holds exactly the most recent min(n, 20) recorded
\* runs in the order they were recorded.
C15_HistoryIsRecent ==
    LET n == Len(recorded)
        k == IF n < HistoryLimit THEN n ELSE HistoryLimit
    IN  /\ Len(Persisted.run_history) <= HistoryLimit
        /\ Persisted.run_history = SubSeq(recorded, n - k + 1, n)

C15_Witness ==
    /\ call.op = "record_workflow_run"
    /\ call.ret = "ok"
    /\ Len(recorded) = HistoryLimit + 2
    /\ Len(Persisted.run_history) = HistoryLimit
    /\ Persisted.run_history[1].timestamp = 3
    /\ Persisted.run_history[HistoryLimit].timestamp = HistoryLimit + 2

\* C16: record_workflow_run is the sole writer of a workflow metrics
\* record: no other operation creates or modifies the metrics file.
C16_SoleWriter ==
    [][ metricsDir'.file # metricsDir.file
        => call'.op = "record_workflow_run" ]_vars

\* C16 as amended: the writers are record_workflow_run and
\* reset_failure_count, which writes the record it loaded with
\* consecutive_failures set to 0.
C16_TwoWriters ==
    [][ metricsDir'.file # metricsDir.file =>
          \/ call'.op = "record_workflow_run"
          \/ /\ call'.op = "reset_failure_count"
             /\ metricsDir'.file =
                    MetricsRecord([load_workflow_metrics(metricsDir.file).m
                                      EXCEPT !.consecutive_failures = 0]) ]_vars

C16_Witness ==
    /\ call.op = "reset_failure_count"
    /\ call.ret = "ok"
    /\ recorded # <<>>
    /\ ~recorded[Len(recorded)].success
    /\ Persisted.failed_runs = 2
    /\ Persisted.consecutive_failures = 0

-----------------------------------------------------------------------------
(* The mood engine: scripts/oura-mood-engine.py *)

\* a value of the metrics bundle: missing (None), a number, a string that
\* float() parses, a string or list it does not, NaN, an integer too large
\* for a float
Missing == [kind |-> "none", val |-> 0]
Num(v) == [kind |-> "num", val |-> v]
NumStr(v) == [kind |-> "str", val |-> v]
Junk == [kind |-> "junk", val |-> 0]
NaN == [kind |-> "nan", val |-> 0]
Huge == [kind |-> "huge", val |-> 0]

\* the normalized score, and whether float() raised OverflowError
Normal(v) == [raised |-> FALSE, v |-> v]
Overflow == [raised |-> TRUE, v |-> 0]

\* max(a, b) and min(a, b) on numbers
Max(a, b) == IF b > a THEN b ELSE a
Min(a, b) == IF b < a THEN b ELSE a

\* normalize_score(value, 0, 100).  min(100, nan) is 100 because no
\* comparison with NaN is true; OverflowError is not caught.
normalize_score(value) ==
    CASE value.kind \in {"none", "junk"} -> Normal(50)
      [] value.kind = "nan" -> Normal(100)
      [] value.kind = "huge" -> Overflow
      [] OTHER -> Normal(Max(0, Min(100, value.val)))

MetricNames ==
    {"sleep_score", "readiness_score", "activity_score", "hrv", "resting_hr",
     "temp_deviation"}

\* the score in tenths, or the exception
Score(tenths) == [raised |-> FALSE, tenths |-> tenths]
ScoreRaised == [raised |-> TRUE, tenths |-> 0]

\* round(x, 1) of x given in hundredths.  The sum is computed in binary
\* floating point, so a decimal tie (..5 hundredths) falls to the side the
\* accumulated error puts it on: up tells which.
round1(hundredths, up) ==
    LET q == hundredths \div 10
        rem == hundredths % 10
    IN  IF rem > 5 \/ (rem = 5 /\ up) THEN q + 1 ELSE q

\* compute_mood_score on the values as given: no normalize_score, no
\* final clamp
compute_mood_score_unclamped(metrics, up) ==
    LET raw(name) == IF metrics[name].kind \in {"num", "str"}
                     THEN metrics[name].val ELSE 50
        score == 30 * raw("sleep_score") + 30 * raw("readiness_score")
                 + 15 * raw("activity_score") + 10 * raw("hrv")
                 + 5 * (100 - raw("resting_hr")) + 10 * raw("temp_deviation")
    IN  IF \E name \in MetricNames : metrics[name].kind = "huge"
        THEN ScoreRaised
        ELSE Score(round1(score, up))

\* compute_mood_score(metrics); the weighted sum is kept in hundredths
compute_mood_score(metrics, up) ==
    LET n(name) == normalize_score(metrics[name])
        score == 30 * n("sleep_score").v + 30 * n("readiness_score").v
                 + 15 * n("activity_score").v + 10 * n("hrv").v
                 + 5 * (100 - n("resting_hr").v) + 10 * n("temp_deviation").v
    IN  IF \E name \in MetricNames : n(name).raised
        THEN ScoreRaised
        ELSE Score(round1(Max(0, Min(10000, score)), up))

\* classify_mood with storm_state tested before chaotic_overdrive
classify_mood_storm_first(metrics) ==
    LET sleep_score == normalize_score(metrics["sleep_score"]).v
        readiness_score == normalize_score(metrics["readiness_score"]).v
        activity_score == normalize_score(metrics["activity_score"]).v
        hrv == normalize_score(metrics["hrv"]).v
    IN  IF \E name \in MetricNames \ {"resting_hr"} :
               normalize_score(metrics[name]).raised
        THEN "raise"
        ELSE IF sleep_score >= 80 /\ readiness_score >= 80 /\ hrv >= 70
        THEN "cosmic_clarity"
        ELSE IF readiness_score >= 75 /\ activity_score >= 70
        THEN "solar_focus"
        ELSE IF sleep_score >= 75 /\ readiness_score < 70 /\ activity_score < 60
        THEN "restorative_drift"
        ELSE IF sleep_score < 50 \/ readiness_score < 50
        THEN "storm_state"
        ELSE IF activity_score >= 80 /\ (readiness_score < 60 \/ sleep_score < 60)
        THEN "chaotic_overdrive"
        ELSE IF sleep_score >= 70 /\ readiness_score >= 60 /\ activity_score < 70
        THEN "energetic_compression"
        ELSE "quiet_neutrality"

\* classify_mood(metrics).  resting_hr is not read.
classify_mood(metrics) ==
    LET sleep_score == normalize_score(metrics["sleep_score"]).v
        readiness_score == normalize_score(metrics["readiness_score"]).v
        activity_score == normalize_score(metrics["activity_score"]).v
        hrv == normalize_score(metrics["hrv"]).v
    IN  IF \E name \in MetricNames \ {"resting_hr"} :
               normalize_score(metrics[name]).raised
        THEN "raise"
        ELSE IF sleep_score >= 80 /\ readiness_score >= 80 /\ hrv >= 70
        THEN "cosmic_clarity"
        ELSE IF readiness_score >= 75 /\ activity_score >= 70
        THEN "solar_focus"
        ELSE IF sleep_score >= 75 /\ readiness_score < 70 /\ activity_score < 60
        THEN "restorative_drift"
        ELSE IF activity_score >= 80 /\ (readiness_score < 60 \/ sleep_score < 60)
        THEN "chaotic_overdrive"
        ELSE IF sleep_score < 50 \/ readiness_score < 50
        THEN "storm_state"
        ELSE IF sleep_score >= 70 /\ readiness_score >= 60 /\ activity_score < 70
        THEN "energetic_compression"
        ELSE "quiet_neutrality"

\* the bundles classified and scored: values on both sides of every
\* threshold of classify_mood, far outside [0, 100], missing, unparsable
Bundles ==
    [sleep_score : {Missing, Num(-1000), Num(40), Num(55), Num(65), Num(72),
                    Num(77), Num(85), Num(1000)},
     readiness_score : {Missing, Num(40), Num(55), Num(65), Num(72), Num(77),
                        Num(85)},
     activity_score : {Missing, Num(50), Num(65), Num(75), Num(85)},
     hrv : {Missing, Num(60), NumStr(75), Junk, NaN},
     resting_hr : {Missing, Num(55), Num(-1000)},
     temp_deviation : {Missing, Num(50), Num(1000), Huge}]

NoMood == [op |-> "none", key |-> "none", score |-> Score(0)]

InitMood ==
    /\ input \in Bundles
    /\ call = NoMood
    /\ NoCards /\ NoMetrics /\ NoSanitizer /\ NoTheme /\ NoIncr

ClassifyMood ==
    /\ call' = [NoMood EXCEPT !.op = "classify_mood", !.key = classify_mood(input)]
    /\ UNCHANGED <<input, otherThanPure>>

ComputeMoodScore ==
    \E up \in BOOLEAN :
        /\ call' = [NoMood EXCEPT !.op = "compute_mood_score",
                                  !.score = compute_mood_score(input, up)]
        /\ UNCHANGED <<input, otherThanPure>>

NextMood == ClassifyMood \/ ComputeMoodScore

SpecMood == InitMood /\ [][NextMood]_vars

-----------------------------------------------------------------------------
(* Claims about the mood engine (SpecMood) *)

\* the order in which classify_mood tests the categories
MoodOrder ==
    <<"cosmic_clarity", "solar_focus", "restorative_drift", "chaotic_overdrive",
      "storm_state", "energetic_compression", "quiet_neutrality">>

\* the condition of each category on the normalized scores
mood_condition(key, metrics) ==
    LET sleep_score == normalize_score(metrics["sleep_score"]).v
        readiness_score == normalize_score(metrics["readiness_score"]).v
        activity_score == normalize_score(metrics["activity_score"]).v
        hrv == normalize_score(metrics["hrv"]).v
    IN  CASE key = "cosmic_clarity" ->
                sleep_score >= 80 /\ readiness_score >= 80 /\ hrv >= 70
          [] key = "solar_focus" -> readiness_score >= 75 /\ activity_score >= 70
          [] key = "restorative_drift" ->
                sleep_score >= 75 /\ readiness_score < 70 /\ activity_score < 60
          [] key = "chaotic_overdrive" ->
                activity_score >= 80 /\ (readiness_score < 60 \/ sleep_score < 60)
          [] key = "storm_state" -> sleep_score < 50 \/ readiness_score < 50
          [] key = "energetic_compression" ->
                sleep_score >= 70 /\ readiness_score >= 60 /\ activity_score < 70
          [] key = "quiet_neutrality" -> TRUE

\* C17: classify_mood evaluates its seven conditions in the order
\* cosmic_clarity, solar_focus, restorative_drift, chaotic_overdrive,
\* storm_state, energetic_compression, quiet_neutrality and returns the
\* first whose condition holds; a bundle that satisfies several gets the
\* earliest in that order.
C17_FirstMatchWins ==
    (call.op = "classify_mood" /\ call.key # "raise") =>
        \E i \in 1..Len(MoodOrder) :
            /\ call.key = MoodOrder[i]
            /\ mood_condition(MoodOrder[i], input)
            /\ \A j \in 1..(i - 1) : ~mood_condition(MoodOrder[j], input)

C17_Witness ==
    /\ call.op = "classify_mood"
    /\ call.key = "chaotic_overdrive"
    /\ mood_condition("chaotic_overdrive", input)
    /\ mood_condition("storm_state", input)

\* C18: compute_mood_score never returns a value outside [0, 100], for
\* in-range, out-of-range, unparseable and missing inputs; the all-missing
\* bundle gives 50.0.
C18_ScoreInRange ==
    (call.op = "compute_mood_score" /\ ~call.score.raised) =>
        /\ call.score.tenths >= 0
        /\ call.score.tenths <= 1000
        /\ ((\A name \in MetricNames : input[name] = Missing)
                => call.score.tenths = 500)

C18_Witness ==
    /\ call.op = "compute_mood_score"
    /\ ~call.score.raised
    /\ input["sleep_score"] = Num(1000)
    /\ input["readiness_score"] = Num(85)
    /\ input["activity_score"] = Num(85)
    /\ input["hrv"] = NaN
    /\ input["resting_hr"] = Num(-1000)
    /\ input["temp_deviation"] = Num(1000)
    /\ call.score.tenths = 932

-----------------------------------------------------------------------------
(* The SVG sanitizer: engine/profile_engine/utils/sanitize_svg.py *)

\* most children written under the svg element of an input document
MaxKids == 2

FORBIDDEN_ELEMENTS == {"script", "foreignObject"}

FORBIDDEN_ATTRIBUTES ==
    {"onload", "onclick", "onerror", "onmouseover", "onmouseout", "onfocus",
     "onblur"}

\* An element as written in a file: its tag, its attributes in the order
\* written (the xmlns declaration among them) and its child elements.
\* Text between the elements is left out.
XElem(tag, attrs, kids) == [tag |-> tag, attrs |-> attrs, kids |-> kids]

\* An element of the parsed tree: ns tells whether the tag is in the SVG
\* namespace; attrib is Element.attrib, which holds no xmlns declaration.
Elem(tag, ns, attrib, kids) == [tag |-> tag, ns |-> ns, attrib |-> attrib, kids |-> kids]

Xmlns == <<"xmlns", "http://www.w3.org/2000/svg">>

has_attr(attrs, name) == \E i \in 1..Len(attrs) : attrs[i][1] = name

attr_value(attrs, name) ==
    attrs[CHOOSE i \in 1..Len(attrs) : attrs[i][1] = name][2]

\* contents of an SVG file.  lex tells how the document is written:
\* "et" as ElementTree.write writes it, "other" in any other way (XML
\* comments, # noqa comments, <rect/> without the space, a final newline).
SvgAbsent == [kind |-> "absent", lex |-> "et", root |-> XElem("none", <<>>, <<>>)]
\* bytes that are not UTF-8
SvgBytes == [kind |-> "bytes", lex |-> "et", root |-> XElem("none", <<>>, <<>>)]
\* text that is not well-formed XML, a half-written file included
SvgText == [kind |-> "text", lex |-> "et", root |-> XElem("none", <<>>, <<>>)]
SvgXml(lex, root) == [kind |-> "xml", lex |-> lex, root |-> root]

\* ET.fromstring: an element is in the namespace its own xmlns attribute or
\* that of an ancestor declares
RECURSIVE parse_element(_, _)
parse_element(x, inherited) ==
    LET ns == inherited \/ has_attr(x.attrs, "xmlns")
    IN  Elem(x.tag, ns,
             SelectSeq(x.attrs, LAMBDA a : a[1] # "xmlns"),
             [i \in 1..Len(x.kids) |-> parse_element(x.kids[i], ns)])

\* 'xmlns=' in content
RECURSIVE has_xmlns_in_original(_)
has_xmlns_in_original(x) ==
    \/ has_attr(x.attrs, "xmlns")
    \/ \E i \in 1..Len(x.kids) : has_xmlns_in_original(x.kids[i])

\* some tag of the tree is in the SVG namespace
RECURSIVE any_ns(_)
any_ns(e) == e.ns \/ \E i \in 1..Len(e.kids) : any_ns(e.kids[i])

RECURSIVE serialize_element(_)
serialize_element(e) ==
    XElem(e.tag, e.attrib, [i \in 1..Len(e.kids) |-> serialize_element(e.kids[i])])

\* tree.write(output_path, encoding='utf-8', method='xml'): the namespace,
\* registered with the empty prefix, is declared first on the root of the
\* tree; the attributes follow in the order of Element.attrib
tree_write(tree) ==
    LET x == serialize_element(tree)
    IN  SvgXml("et", IF any_ns(tree)
                     THEN [x EXCEPT !.attrs = <<Xmlns>> \o @]
                     ELSE x)

\* root.find('.//{http://www.w3.org/2000/svg}svg') and root.find('.//svg'):
\* the path, as child positions, to the first descendant in document order
\* that is an svg element in (ns) or outside the namespace; <<>> if none
RECURSIVE holds_svg(_, _)
holds_svg(e, ns) ==
    \/ e.tag = "svg" /\ e.ns = ns
    \/ \E i \in 1..Len(e.kids) : holds_svg(e.kids[i], ns)

RECURSIVE find_svg(_, _)
find_svg(e, ns) ==
    IF \A i \in 1..Len(e.kids) : ~holds_svg(e.kids[i], ns) THEN <<>>
    ELSE LET i == CHOOSE i \in 1..Len(e.kids) :
                      /\ holds_svg(e.kids[i], ns)
                      /\ \A j \in 1..(i - 1) : ~holds_svg(e.kids[j], ns)
         IN  IF e.kids[i].tag = "svg" /\ e.kids[i].ns = ns THEN <<i>>
             ELSE <<i>> \o find_svg(e.kids[i], ns)

\* the element at a path, and the tree with that element changed in place
RECURSIVE element_at(_, _)
element_at(e, path) ==
    IF path = <<>> THEN e ELSE element_at(e.kids[Head(path)], Tail(path))

RECURSIVE replace_at(_, _, _)
replace_at(e, path, new) ==
    IF path = <<>> THEN new
    ELSE [e EXCEPT !.kids[Head(path)] = replace_at(@, Tail(path), new)]

\* the warnings for the forbidden attributes of an element, in the order
\* of Element.attrib
RECURSIVE attribute_warnings(_)
attribute_warnings(attrib) ==
    IF attrib = <<>> THEN <<>>
    ELSE (IF Head(attrib)[1] \in FORBIDDEN_ATTRIBUTES
          THEN <<"Removed forbidden attribute">> ELSE <<>>)
         \o attribute_warnings(Tail(attrib))

\* _sanitize_element(element): the element as it is left, and the warnings
\* appended.  An element that is itself forbidden is cleared, not removed;
\* forbidden children are removed; the other children are sanitized in
\* turn.
RECURSIVE sanitize_element(_)
RECURSIVE sanitize_children(_)
sanitize_element(element) ==
    IF element.tag \in FORBIDDEN_ELEMENTS
    THEN [elem |-> Elem(element.tag, element.ns, <<>>, <<>>),
          warnings |-> <<"Removed forbidden element">>]
    ELSE LET children == sanitize_children(element.kids)
         IN  [elem |-> Elem(element.tag, element.ns,
                            SelectSeq(element.attrib,
                                      LAMBDA a : a[1] \notin FORBIDDEN_ATTRIBUTES),
                            children.kids),
              warnings |-> attribute_warnings(element.attrib) \o children.warnings]

sanitize_children(kids) ==
    IF kids = <<>> THEN [kids |-> <<>>, warnings |-> <<>>]
    ELSE LET rest == sanitize_children(Tail(kids))
         IN  IF Head(kids).tag \in FORBIDDEN_ELEMENTS
             THEN [kids |-> rest.kids,
                   warnings |-> <<"Removed forbidden element">> \o rest.warnings]
             ELSE LET child == sanitize_element(Head(kids))
                  IN  [kids |-> <<child.elem>> \o rest.kids,
                       warnings |-> child.warnings \o rest.warnings]

\* _parse_dimension(value): the float written by the f-string, or "error"
\* for the ValueError
parse_dimension(value) ==
    CASE value = "1" -> "1.0"
      [] value = "1px" -> "1.0"
      [] OTHER -> "error"

\* f'0 0 {width} {height}'
format_viewbox(width, height) ==
    IF width = "1.0" /\ height = "1.0" THEN "0 0 1.0 1.0" ELSE "0 0 w h"

\* _ensure_required_attributes(root): root as it is left, the warnings
\* appended, and whether SVGSanitizationError was raised (strict mode, no
\* dimensions at all)
ensure_required_attributes(root, in_original, strict) ==
    LET add_xmlns == ~in_original /\ ~has_attr(root.attrib, "xmlns")
        with_xmlns == IF add_xmlns
                      THEN [root EXCEPT !.attrib = Append(@, Xmlns)]
                      ELSE root
        has_width == has_attr(root.attrib, "width")
        has_height == has_attr(root.attrib, "height")
        has_viewbox == has_attr(root.attrib, "viewBox")
        width == IF has_width THEN parse_dimension(attr_value(root.attrib, "width"))
                 ELSE "error"
        height == IF has_height THEN parse_dimension(attr_value(root.attrib, "height"))
                  ELSE "error"
        add_viewbox == /\ ~has_viewbox /\ has_width /\ has_height
                       /\ width # "error" /\ height # "error"
        missing == ~(has_width \/ has_height \/ has_viewbox)
    IN  [root |-> IF add_viewbox
                  THEN [with_xmlns EXCEPT !.attrib =
                           Append(@, <<"viewBox", format_viewbox(width, height)>>)]
                  ELSE with_xmlns,
         warnings |-> (IF add_xmlns THEN <<"Added missing xmlns attribute">> ELSE <<>>)
                      \o (IF add_viewbox THEN <<"Added viewBox from width/height">>
                          ELSE <<>>)
                      \o (IF missing
                          THEN <<"SVG is missing width, height, and viewBox attributes">>
                          ELSE <<>>),
         raised |-> missing /\ strict]

\* what one sanitize run leaves: the value returned or "raise", the
\* warnings returned, the output file, and where the run ended
SanitizeResult(ret, warnings, file, stage) ==
    [ret |-> ret, warnings |-> warnings, file |-> file, stage |-> stage]

\* SVGSanitizationError turned into (False, [str(e)]) in strict mode too
sanitization_error_never_raises(strict, message, file, stage) ==
    SanitizeResult("false", <<message>>, file, stage)

\* how a run ends on an exception: SVGSanitizationError is raised again in
\* strict mode and becomes (False, [str(e)]) otherwise; any other exception
\* becomes SVGSanitizationError in strict mode and otherwise a warning
\* appended to those gathered
sanitization_error(strict, message, file, stage) ==
    IF strict THEN SanitizeResult("raise", <<>>, file, stage)
    ELSE SanitizeResult("false", <<message>>, file, stage)

\* the exception handler with the output file cut short whatever failed
other_exception_truncates(strict, warnings, file, stage) ==
    IF strict THEN SanitizeResult("raise", <<>>, SvgText, stage)
    ELSE SanitizeResult("false", Append(warnings, "Failed to sanitize"), SvgText, stage)

other_exception(strict, warnings, file, stage) ==
    IF strict THEN SanitizeResult("raise", <<>>, file, stage)
    ELSE SanitizeResult("false", Append(warnings, "Failed to sanitize"), file, stage)

\* _write_svg(tree, output_path): tree.write truncates the output file when
\* it opens it; io tells whether the mkdir or the open fails (the file is
\* as it was), the write fails (the file is cut short), or all goes well
WriteFaults == {"ok", "open_error", "write_error"}

\* sanitize_svg(svg_path, output_path, strict) on the content of the input
\* file and of the output file
sanitize_svg(source, output, strict, io) ==
    IF source.kind \in {"absent", "bytes"}
    THEN other_exception(strict, <<>>, output, "ReadError")
    ELSE IF source.kind = "text"
    THEN sanitization_error(strict, "Invalid XML", output, "ParseError")
    ELSE
    LET in_original == has_xmlns_in_original(source.root)
        tree == parse_element(source.root, FALSE)
        in_ns == find_svg(tree, TRUE)
        path == IF tree.tag = "svg" THEN <<>>
                ELSE IF in_ns # <<>> THEN in_ns
                ELSE find_svg(tree, FALSE)
    IN  IF tree.tag # "svg" /\ path = <<>>
        THEN sanitization_error(strict, "No SVG root element found", output,
                                "NoSvgRoot")
        ELSE
        LET sanitized == sanitize_element(element_at(tree, path))
            ensured == ensure_required_attributes(sanitized.elem, in_original, strict)
            warnings == sanitized.warnings \o ensured.warnings
            written == tree_write(replace_at(tree, path, ensured.root))
        IN  IF ensured.raised
            THEN SanitizeResult("raise", <<>>, output, "MissingDimensions")
            ELSE IF io = "open_error"
            THEN other_exception(strict, warnings, output, "WriteError")
            ELSE IF io = "write_error"
            THEN other_exception(strict, warnings, SvgText, "WriteError")
            ELSE SanitizeResult("true", warnings, written, "Written")

-----------------------------------------------------------------------------
(* Sanitize runs over two files (SpecSanitizer) *)

Onclick == <<"onclick", "x()">>

\* the elements written under an svg element: at most two levels deep
SvgKids ==
    {XElem("g", <<Onclick>>, <<>>),
     XElem("script", <<>>, <<>>),
     XElem("g", <<>>, <<XElem("script", <<>>, <<>>)>>),
     XElem("g", <<>>, <<XElem("g", <<Onclick>>, <<>>)>>)}

\* the attributes written on an svg element
SvgAttrs ==
    {<<>>,
     <<Xmlns>>,
     <<<<"width", "1">>, <<"height", "1">>>>,
     <<Xmlns, <<"width", "1">>, <<"height", "1px">>>>,
     <<Xmlns, <<"width", "auto">>, <<"height", "1">>>>,
     <<<<"width", "1">>, <<"height", "1">>, <<"viewBox", "0 0 1 1">>>>,
     <<Xmlns, <<"width", "1">>, <<"height", "1">>, <<"viewBox", "0 0 1 1">>>>,
     <<<<"viewBox", "0 0 1 1">>, Onclick, Xmlns>>}

\* the documents whose root is an svg element
SvgElements ==
    {XElem("svg", attrs, kids) : attrs \in SvgAttrs, kids \in SeqsUpTo(SvgKids, MaxKids)}

\* the svg elements written inside another root
InnerSvgElements == {XElem("svg", attrs, <<>>) : attrs \in SvgAttrs}

\* the documents: an svg element as the root or inside another root, and a
\* document without an svg element
Documents ==
    SvgElements
    \cup {XElem("html", <<>>, <<e>>) : e \in InnerSvgElements}
    \cup {XElem("html", <<Onclick>>, <<e>>) : e \in InnerSvgElements}
    \cup {XElem("html", <<>>, <<XElem("script", <<>>, <<>>), e>>) :
             e \in InnerSvgElements}
    \cup {XElem("html", <<>>, <<XElem("g", <<>>, <<>>)>>)}

SvgPaths == {"in.svg", "out.svg"}

NoSanitize ==
    [op |-> "none", svg_path |-> "none", output_path |-> "none",
     strict |-> FALSE, ret |-> "none", warnings |-> <<>>, stage |-> "none"]

InitSanitizer ==
    /\ \E source \in {SvgAbsent, SvgBytes, SvgText}
                     \cup {SvgXml("other", root) : root \in Documents} :
          svgDir = [path \in SvgPaths |->
                       IF path = "in.svg" THEN source ELSE SvgAbsent]
    /\ call = NoSanitize
    /\ NoCards /\ NoInput /\ NoMetrics /\ NoTheme /\ NoIncr

\* sanitize_svg(svg_path, output_path, strict) is called; output_path is
\* svg_path when the file is sanitized in place.  The fault of the write
\* is drawn when the run gets to the write.
Sanitize ==
    \E svg_path \in SvgPaths, output_path \in SvgPaths, strict \in BOOLEAN :
      LET dry == sanitize_svg(svgDir[svg_path], svgDir[output_path], strict, "ok")
      IN  \E io \in (IF dry.ret = "true" THEN WriteFaults ELSE {"ok"}) :
            LET r == sanitize_svg(svgDir[svg_path], svgDir[output_path], strict, io)
            IN  /\ svgDir' = [svgDir EXCEPT ![output_path] = r.file]
                /\ call' = [op |-> "sanitize_svg", svg_path |-> svg_path,
                            output_path |-> output_path, strict |-> strict,
                            ret |-> r.ret, warnings |-> r.warnings,
                            stage |-> r.stage]
                /\ UNCHANGED otherThanSanitizer

NextSanitizer == Sanitize

SpecSanitizer == InitSanitizer /\ [][NextSanitizer]_vars

-----------------------------------------------------------------------------
(* Claims about the sanitizer (SpecSanitizer) *)

\* the document holds a script element, an onclick attribute
RECURSIVE has_script(_)
has_script(x) ==
    x.tag = "script" \/ \E i \in 1..Len(x.kids) : has_script(x.kids[i])

RECURSIVE has_onclick(_)
has_onclick(x) ==
    has_attr(x.attrs, "onclick") \/ \E i \in 1..Len(x.kids) : has_onclick(x.kids[i])

Unsafe(file) == file.kind = "xml" /\ (has_script(file.root) \/ has_onclick(file.root))

\* C19: for an input file that holds a script element or an onclick
\* attribute anywhere in the document, a successful sanitize run writes an
\* output that holds neither.
C19_OutputIsSafe ==
    [][ ( /\ call'.op = "sanitize_svg"
          /\ call'.ret = "true"
          /\ Unsafe(svgDir[call'.svg_path]) )
        => ( /\ svgDir'[call'.output_path].kind = "xml"
             /\ ~Unsafe(svgDir'[call'.output_path]) ) ]_vars

\* C20: the sanitizer is idempotent: run on the file it produced, it
\* writes byte-identical output and records no warnings.
C20_Idempotent ==
    [][ ( /\ call.op = "sanitize_svg"
          /\ call.ret = "true"
          /\ call'.op = "sanitize_svg"
          /\ call'.svg_path = call.output_path
          /\ call'.ret = "true" )
        => ( /\ svgDir'[call'.output_path] = svgDir[call.output_path]
             /\ call'.warnings = <<>> ) ]_vars

\* C21: when the input cannot be parsed as XML, sanitize_svg in non-strict
\* mode does not raise and returns (false, warnings) with at least one
\* warning, and in strict mode it raises; in both modes nothing is written
\* to the output path.
C21_ParseErrorReported ==
    [][ ( /\ call'.op = "sanitize_svg"
          /\ svgDir[call'.svg_path].kind = "text" )
        => ( /\ call'.ret = (IF call'.strict THEN "raise" ELSE "false")
             /\ ~call'.strict => Len(call'.warnings) >= 1
             /\ svgDir' = svgDir ) ]_vars

C21_Witness ==
    /\ call.op = "sanitize_svg"
    /\ call.stage = "ParseError"
    /\ svgDir[call.svg_path].kind = "text"
    /\ ~call.strict
    /\ call.ret = "false"
    /\ call.warnings = <<"Invalid XML">>
    /\ call.output_path = "out.svg"
    /\ svgDir["out.svg"].kind = "xml"

\* the states of the run passed, in order, when it ends at a stage:
\* Loaded after the read, Preprocessed after the two comment removals,
\* Parsed after _parse_svg, Sanitized after _sanitize_element and
\* _ensure_required_attributes, Written after _write_svg
reached(stage) ==
    CASE stage = "ReadError" -> <<>>
      [] stage = "ParseError" -> <<"Loaded", "Preprocessed">>
      [] stage = "NoSvgRoot" -> <<"Loaded", "Preprocessed", "Parsed">>
      [] stage = "MissingDimensions" -> <<"Loaded", "Preprocessed", "Parsed">>
      [] stage = "WriteError" -> <<"Loaded", "Preprocessed", "Parsed", "Sanitized">>
      [] stage = "Written" ->
             <<"Loaded", "Preprocessed", "Parsed", "Sanitized", "Written">>

passed(stage, state) == \E i \in 1..Len(reached(stage)) : reached(stage)[i] = state

\* C22: a sanitize run can end only in Written, ParseError or WriteError,
\* and the output file is written only after the Sanitized state is
\* reached.
C22_ThreeTerminalStates ==
    [][ call'.op = "sanitize_svg"
        => ( /\ call'.stage \in {"Written", "ParseError", "WriteError"}
             /\ svgDir' # svgDir => passed(call'.stage, "Sanitized") ) ]_vars

\* C22 as the code has it: a run ends in Written, or in one of the failure
\* states ReadError (the input cannot be read), ParseError, NoSvgRoot (no
\* svg element in the document), MissingDimensions (strict mode, no width,
\* height or viewBox) and WriteError; it returns true exactly in Written,
\* and the output file is written only after the Sanitized state is
\* reached.
C22_SixTerminalStates ==
    [][ call'.op = "sanitize_svg"
        => ( /\ call'.stage \in {"Written", "ReadError", "ParseError", "NoSvgRoot",
                                 "MissingDimensions", "WriteError"}
             /\ call'.ret = "true" <=> call'.stage = "Written"
             /\ call'.stage = "MissingDimensions" => call'.strict
             /\ svgDir' # svgDir => passed(call'.stage, "Sanitized") ) ]_vars

C22_Witness ==
    /\ call.op = "sanitize_svg"
    /\ call.stage = "NoSvgRoot"
    /\ call.ret = "false"
    /\ call.warnings = <<"No SVG root element found">>
    /\ svgDir[call.svg_path].kind = "xml"
    /\ call.output_path = "out.svg"
    /\ svgDir["out.svg"].kind = "absent"

-----------------------------------------------------------------------------
(* The theme loader: load_json and load_theme of scripts/lib/utils.py *)

\* most documents json.load builds in one behaviour
MaxLoads == 3

\* the names under the themes section, and a name that is not there
ThemeNames == {"dark", "light"}
UnknownTheme == "solar"

\* a colors or gradients section: that of the base document or of an entry
\* of themes, or no section
Section(name, of) == <<name, of>>
NoSection == <<"none", "none">>

\* an entry of the themes section with the sections it has; no entry
Variant(colors, gradients) ==
    [defined |-> TRUE, colors |-> colors, gradients |-> gradients]
NoVariant == [defined |-> FALSE, colors |-> NoSection, gradients |-> NoSection]

\* A JSON value: null (None) or an object.  obj tells the Python objects
\* apart: json.load builds a new one on every call, dict.copy another one.
ThemeObject(obj, colors, gradients, themes) ==
    [kind |-> "object", obj |-> obj, colors |-> colors, gradients |-> gradients,
     themes |-> themes]
ThemeNull ==
    [kind |-> "null", obj |-> 0, colors |-> NoSection, gradients |-> NoSection,
     themes |-> [n \in ThemeNames |-> NoVariant]]

\* content of the theme file
ThemeAbsent == [kind |-> "absent", value |-> ThemeNull]
ThemeText == [kind |-> "text", value |-> ThemeNull]
ThemeBytes == [kind |-> "bytes", value |-> ThemeNull]
ThemeJson(value) == [kind |-> "json", value |-> value]

\* load_json(path, description): the document built, sys.exit(1) for a
\* missing file and for text that is not JSON; UnicodeDecodeError is not
\* caught
load_theme_json(file, loads) ==
    CASE file.kind = "absent" -> [ret |-> "exit1", value |-> ThemeNull]
      [] file.kind = "text" -> [ret |-> "exit1", value |-> ThemeNull]
      [] file.kind = "bytes" -> [ret |-> "raise", value |-> ThemeNull]
      [] OTHER ->
           [ret |-> "ok",
            value |-> IF file.value.kind = "null" THEN ThemeNull
                      ELSE [file.value EXCEPT !.obj = loads + 1]]

\* merged = theme_config.copy() with colors and gradients taken from the
\* selected theme where it has them
merged_theme(theme_config, selected_theme) ==
    [theme_config EXCEPT
        !.obj = 0 - @,
        !.colors = IF selected_theme.colors # NoSection
                   THEN selected_theme.colors ELSE @,
        !.gradients = IF selected_theme.gradients # NoSection
                      THEN selected_theme.gradients ELSE @]

LoadResult(ret, value, cache, read) ==
    [ret |-> ret, value |-> value, cache |-> cache, read |-> read]

\* load_theme that reads the file again although the cache is set
load_theme_always_reads(file, cache, loads, theme_name) ==
    LET theme_loaded == load_theme_json(file, loads)
    IN  IF theme_loaded.ret # "ok" THEN LoadResult(theme_loaded.ret, ThemeNull, cache, TRUE)
        ELSE LoadResult("ok", theme_loaded.value, theme_loaded.value, TRUE)

\* load_theme(theme_path, theme_name) with _theme_cache = cache (ThemeNull
\* for None); theme_name is "none" for None.  read tells whether the file
\* was read.
load_theme(file, cache, loads, theme_name) ==
    IF cache # ThemeNull /\ theme_name = "none"
    THEN LoadResult("ok", cache, cache, FALSE)
    ELSE
    LET theme_loaded == load_theme_json(file, loads)
        theme_config == theme_loaded.value
    IN  IF theme_loaded.ret # "ok" THEN LoadResult(theme_loaded.ret, ThemeNull, cache, TRUE)
        ELSE IF theme_name = "none"
        THEN LoadResult("ok", theme_config,
                        IF cache = ThemeNull THEN theme_config ELSE cache, TRUE)
        \* "themes" in None: TypeError
        ELSE IF theme_config.kind = "null"
        THEN LoadResult("raise", ThemeNull, cache, TRUE)
        ELSE IF theme_name \in ThemeNames /\ theme_config.themes[theme_name].defined
        THEN LET merged == merged_theme(theme_config, theme_config.themes[theme_name])
             IN  LoadResult("ok", merged, merged, TRUE)
        ELSE LoadResult("ok", theme_config, theme_config, TRUE)

-----------------------------------------------------------------------------
(* Theme loads between edits of the theme file (SpecTheme) *)

BaseColors == Section("colors", "base")
BaseGradients == Section("gradients", "base")

\* the entries a theme can have in the file: none, both sections, colors
\* only
Variants(name) ==
    {NoVariant,
     Variant(Section("colors", name), Section("gradients", name)),
     Variant(Section("colors", name), NoSection)}

\* the documents written in the theme file; a document without colors or
\* without gradients lacks a section the theme schema requires
ThemeDocuments ==
    {ThemeNull}
    \cup {ThemeObject(0, colors, gradients, [n \in ThemeNames |-> IF n = "dark" THEN d ELSE l]) :
            colors \in {BaseColors, NoSection},
            gradients \in {BaseGradients},
            d \in Variants("dark"), l \in Variants("light")}
    \cup {ThemeObject(0, NoSection, NoSection, [n \in ThemeNames |-> NoVariant])}

ThemeFiles == {ThemeAbsent, ThemeText, ThemeBytes} \cup {ThemeJson(d) : d \in ThemeDocuments}

\* the schema of the theme: an object with its required sections
theme_schema_ok(value) ==
    value.kind = "object" /\ value.colors # NoSection /\ value.gradients # NoSection

NoThemeCall ==
    [op |-> "none", theme_name |-> "none", ret |-> "none", value |-> ThemeNull,
     read |-> FALSE]

InitTheme ==
    /\ themeFile \in ThemeFiles
    /\ themeCache = ThemeNull
    /\ themeLoads = 0
    /\ call = NoThemeCall
    /\ NoCards /\ NoInput /\ NoMetrics /\ NoSanitizer /\ NoIncr

\* load_theme(theme_path, theme_name) is called
LoadTheme ==
    \E theme_name \in {"none", UnknownTheme} \cup ThemeNames :
      LET r == load_theme(themeFile, themeCache, themeLoads, theme_name)
      IN  /\ r.read => themeLoads < MaxLoads
          /\ themeCache' = r.cache
          /\ themeLoads' = IF r.read /\ r.ret = "ok" THEN themeLoads + 1 ELSE themeLoads
          /\ call' = [op |-> "load_theme", theme_name |-> theme_name,
                      ret |-> r.ret, value |-> r.value, read |-> r.read]
          /\ UNCHANGED <<themeFile, otherThanTheme>>

\* the theme file is edited, replaced or deleted between two loads
EditThemeFile ==
    /\ themeLoads < MaxLoads
    /\ \E file \in ThemeFiles :
          /\ file # themeFile
          /\ themeFile' = file
    /\ call' = [NoThemeCall EXCEPT !.op = "edit"]
    /\ UNCHANGED <<themeCache, themeLoads, otherThanTheme>>

NextTheme == LoadTheme \/ EditThemeFile

SpecTheme == InitTheme /\ [][NextTheme]_vars

-----------------------------------------------------------------------------
(* Claims about the theme loader (SpecTheme) *)

\* themes[V] of a document; no entry for a name that is not there
variant_of(value, theme_name) ==
    IF theme_name \in ThemeNames THEN value.themes[theme_name] ELSE NoVariant

\* C23: once a theme has been loaded, a load_theme call without a variant
\* name returns the cached document (the same object) without reading any
\* file; a call with variant name V produces the document of the file with
\* colors and gradients replaced by those of themes[V], that result becomes
\* the new cache, and later calls without a variant return it.
C23_CacheAndVariant ==
    [][ call'.op = "load_theme"
        => ( /\ (themeCache # ThemeNull /\ call'.theme_name = "none")
                  => ( /\ call'.ret = "ok"
                       /\ call'.value = themeCache
                       /\ ~call'.read
                       /\ themeCache' = themeCache )
             /\ (call'.theme_name # "none" /\ call'.ret = "ok")
                  => LET base == themeFile.value
                         selected == variant_of(base, call'.theme_name)
                     IN  /\ call'.value.kind = "object"
                         /\ call'.value.colors =
                               IF selected.colors # NoSection
                               THEN selected.colors ELSE base.colors
                         /\ call'.value.gradients =
                               IF selected.gradients # NoSection
                               THEN selected.gradients ELSE base.gradients
                         /\ call'.value.themes = base.themes
                         /\ themeCache' = call'.value ) ]_vars

\* the document cached by a call with variant "light", whose entry has
\* colors only, is returned by a later call without a variant although the
\* file is gone
C23_Witness ==
    /\ call.op = "load_theme"
    /\ call.theme_name = "none"
    /\ call.ret = "ok"
    /\ ~call.read
    /\ call.value = themeCache
    /\ themeCache.obj < 0
    /\ themeCache.colors = Section("colors", "light")
    /\ themeCache.gradients = BaseGradients
    /\ themeFile = ThemeAbsent

\* the theme file is malformed: not JSON, or JSON that does not satisfy the
\* theme schema
Malformed(file) ==
    \/ file.kind = "text"
    \/ file.kind = "json" /\ ~theme_schema_ok(file.value)

\* C24: with an empty theme cache, load_theme on a malformed theme file,
\* a file that parses as JSON but does not satisfy the theme schema
\* included, terminates the process with exit code 1 and caches nothing.
C24_MalformedThemeExits ==
    [][ ( /\ call'.op = "load_theme"
          /\ themeCache = ThemeNull
          /\ Malformed(themeFile) )
        => ( /\ call'.ret = "exit1"
             /\ themeCache' = ThemeNull ) ]_vars

-----------------------------------------------------------------------------
(* QuoteCard.wrap_text of scripts/generate_quote_card.py *)

\* longest text, as characters, and widest line handed to wrap_text
MaxChars == 4
MaxWidth == 3

\* a text is a sequence of characters; two of them are whitespace
Space == " "
Tab == "tab"
Whitespace == {Space, Tab}
Chars == {"a", "b"} \cup Whitespace

\* text.split(): the words between runs of whitespace, none of them empty
RECURSIVE split_words(_, _)
split_words(text, word) ==
    IF text = <<>> THEN (IF word = <<>> THEN <<>> ELSE <<word>>)
    ELSE IF Head(text) \in Whitespace
    THEN (IF word = <<>> THEN <<>> ELSE <<word>>) \o split_words(Tail(text), <<>>)
    ELSE split_words(Tail(text), Append(word, Head(text)))

split(text) == split_words(text, <<>>)

\* f"{current_line} {word}".strip(): a word holds no whitespace, so only
\* the space before the first word is stripped
test_line_of(current_line, word) ==
    IF current_line = <<>> THEN word ELSE current_line \o <<Space>> \o word

\* the loop of wrap_text over the words left, and the final append
RECURSIVE wrap_words(_, _, _, _)
wrap_words(words, lines, current_line, max_chars_per_line) ==
    IF words = <<>>
    THEN (IF current_line # <<>> THEN Append(lines, current_line) ELSE lines)
    ELSE LET word == Head(words)
             test_line == test_line_of(current_line, word)
         IN  IF Len(test_line) <= max_chars_per_line
             THEN wrap_words(Tail(words), lines, test_line, max_chars_per_line)
             ELSE wrap_words(Tail(words),
                             IF current_line # <<>> THEN Append(lines, current_line)
                             ELSE lines,
                             word, max_chars_per_line)

\* wrap_text without the append after the loop: the last line is lost
wrap_text_drops_last_line(text, max_chars_per_line) ==
    LET lines == wrap_words(split(text), <<>>, <<>>, max_chars_per_line)
    IN  IF lines = <<>> THEN lines ELSE SubSeq(lines, 1, Len(lines) - 1)

\* wrap_text(text, max_chars_per_line)
wrap_text(text, max_chars_per_line) ==
    wrap_words(split(text), <<>>, <<>>, max_chars_per_line)

-----------------------------------------------------------------------------
(* wrap_text on the texts of up to MaxChars characters (SpecWrap) *)

WrapTexts == SeqsUpTo(Chars, MaxChars)
Widths == 0..MaxWidth

NoWrap == [op |-> "none", lines |-> <<>>]

InitWrap ==
    /\ input \in [text : WrapTexts, n : Widths]
    /\ call = NoWrap
    /\ NoCards /\ NoMetrics /\ NoSanitizer /\ NoTheme /\ NoIncr

WrapText ==
    /\ call.op = "none"
    /\ call' = [op |-> "wrap_text", lines |-> wrap_text(input.text, input.n)]
    /\ UNCHANGED <<input, otherThanPure>>

NextWrap == WrapText

SpecWrap == InitWrap /\ [][NextWrap]_vars

-----------------------------------------------------------------------------
(* Claims about wrap_text (SpecWrap) *)

\* " ".join(lines)
RECURSIVE join(_)
join(lines) ==
    IF lines = <<>> THEN <<>>
    ELSE IF Len(lines) = 1 THEN Head(lines)
    ELSE Head(lines) \o <<Space>> \o join(Tail(lines))

\* the words of the lines, in order
RECURSIVE words_of(_)
words_of(lines) ==
    IF lines = <<>> THEN <<>> ELSE split(Head(lines)) \o words_of(Tail(lines))

\* the text without the whitespace at its ends and with every run of
\* whitespace inside it turned into one space
RECURSIVE squeeze(_, _)
squeeze(text, at_start) ==
    IF text = <<>> THEN <<>>
    ELSE IF Head(text) \in Whitespace
    THEN (IF \A i \in 1..Len(text) : text[i] \in Whitespace THEN <<>>
          ELSE IF at_start \/ Head(Tail(text)) \in Whitespace
          THEN squeeze(Tail(text), at_start)
          ELSE <<Space>> \o squeeze(Tail(text), FALSE))
    ELSE <<Head(text)>> \o squeeze(Tail(text), FALSE)

\* C25: for every text and every line width n, joining the lines returned
\* by wrap_text(text, n) with single spaces reconstructs the original text
\* exactly, and no word is split across lines.
C25_JoinIsText ==
    call.op = "wrap_text"
    => ( /\ join(call.lines) = input.text
         /\ words_of(call.lines) = split(input.text) )

\* C25 as the code has it: the joined lines are the text with the
\* whitespace at its ends removed and every run of whitespace turned into
\* one space, which is the text itself when its words are separated by
\* single spaces; no word is split across lines.
C25_JoinIsSqueezedText ==
    call.op = "wrap_text"
    => ( /\ join(call.lines) = squeeze(input.text, TRUE)
         /\ words_of(call.lines) = split(input.text)
         /\ \A i \in 1..Len(call.lines) : call.lines[i] # <<>> )

\* two words two spaces apart, each on its own line
C25_Witness ==
    /\ call.op = "wrap_text"
    /\ input.text = <<"a", Space, Space, "b">>
    /\ input.n = 1
    /\ call.lines = << <<"a">>, <<"b">> >>

-----------------------------------------------------------------------------
(* scripts/incremental-generate.py: generate_with_change_detection *)

IncrResult(ret, stage, exit, fs, rendered) ==
    [ret |-> ret, stage |-> stage, exit |-> exit, fs |-> fs, rendered |-> rendered]

\* the hash of the data the file at svg_path was rendered from, after a run
\* of the generator script: that of the data read when a new card was
\* written, None when the run left another file than it found
rendered_after(rendered, before, g, data_path, data) ==
    IF g.ret = "true" THEN current_hash(data_path, data)
    ELSE IF g.file # before THEN None
    ELSE rendered

\* generate_with_change_detection(data_path, svg_path, generator_script,
\* cache_key, extra_args, force).  run holds what the generator script, a
\* script that ends in generate_card_with_fallback, meets in its process;
\* subprocess.run(check=True) raises CalledProcessError for every exit
\* code other than 0.
generate_with_change_detection(fs, rendered, paths, cache_key, force, run, io) ==
    IF ~paths.in_scripts
    THEN IncrResult("false", "rejected", -1, fs, rendered)
    ELSE
    LET decision == should_regenerate_svg(fs, paths.data, cache_key, force)
    IN  IF decision.ret = "raise"
        THEN IncrResult("raise", "check_raised", -1, fs, rendered)
        ELSE IF decision.ret = "false"
        THEN IncrResult("false", "skipped", -1, fs, rendered)
        ELSE
        LET g == generate_card_with_fallback(paths.svg, fs.out, fs.data,
                                             run.env, run.gen, run.wr)
            after == [fs EXCEPT !.out = g.file]
            now == rendered_after(rendered, fs.out, g, paths.data, fs.data)
        IN  IF ExitCode(g.ret) # 0
            THEN IncrResult("false", "failed", ExitCode(g.ret), after, now)
            ELSE LET updated == update_hash_cache(after, paths.data, cache_key, io)
                 IN  IncrResult(IF updated.ret = "raise" THEN "raise" ELSE "true",
                                "generated", 0, updated.fs, now)

-----------------------------------------------------------------------------
(* Incremental runs between fetches of the data (SpecIncr) *)

IncrData ==
    {DataAbsent, DataText,
     DataJson(<<<<"a", "1">>>>, FALSE), DataJson(<<<<"a", "2">>>>, FALSE)}

NoIncrCall ==
    [op |-> "none", key |-> "none", force |-> FALSE, ret |-> "none",
     stage |-> "none", exit |-> -1]

InitIncr ==
    /\ outPath = "card.svg"
    /\ outFile \in {Absent, ValidSvg}
    /\ dataPath = "data.json"
    /\ dataFile \in IncrData
    /\ cacheDir = "dir"
    /\ cacheFile = CacheAbsent
    /\ renderedFrom = None
    /\ call = NoIncrCall
    /\ NoInput /\ NoMetrics /\ NoSanitizer /\ NoTheme

\* the runs of the generator script: whether the data passes the schema,
\* what the renderer returns and how the write goes, drawn only as far as
\* the run gets
IncrEnvs ==
    {e \in Envs(FALSE) : e.schema_name = "weather" /\ e.avail /\ e.schema_found}

IncrGenerators ==
    {g \in Generators : g.kind = "text" => g.toks = ValidSvg.toks}

IncrWrites(svg) ==
    {w \in WriteOutcomes(svg) : w.kind \in {"ok", "open_error"} \/ w.cut = 1}

Runs ==
    UNION { UNION { { [env |-> env, gen |-> gen, wr |-> wr] :
                        wr \in (IF \/ fallback_exists(outPath, outFile, env.utf8) = "raise"
                                   \/ load_error(dataFile, env) # "ok"
                                   \/ ~svg_looks_valid(gen)
                                THEN {NoWrite} ELSE IncrWrites(gen.toks)) } :
                    gen \in (IF \/ fallback_exists(outPath, outFile, env.utf8) = "raise"
                                \/ load_error(dataFile, env) # "ok"
                             THEN {NoGen} ELSE IncrGenerators) } :
            env \in IncrEnvs }

\* one run of incremental-generate.py
IncrementalGenerate ==
    \E cache_key \in CacheKeys, force \in BOOLEAN, in_scripts \in BOOLEAN :
      LET paths == [svg |-> outPath, data |-> dataPath, in_scripts |-> in_scripts]
          decision == should_regenerate_svg(CurrentFS, dataPath, cache_key, force)
          runs == IF in_scripts /\ decision.ret = "true"
                  THEN Runs
                  ELSE {[env |-> CHOOSE e \in IncrEnvs : TRUE,
                         gen |-> NoGen, wr |-> NoWrite]}
      IN  \E run \in runs :
            LET g == generate_card_with_fallback(outPath, outFile, dataFile,
                                                 run.env, run.gen, run.wr)
            IN  \E io \in (IF in_scripts /\ decision.ret = "true" /\ ExitCode(g.ret) = 0
                           THEN SaveOutcomes(cacheDir) ELSE {"ok"}) :
                  LET r == generate_with_change_detection(
                               CurrentFS, renderedFrom, paths, cache_key, force,
                               run, io)
                  IN  /\ SetFS(r.fs)
                      /\ renderedFrom' = r.rendered
                      /\ call' = [op |-> "generate_with_change_detection",
                                  key |-> cache_key, force |-> force,
                                  ret |-> r.ret, stage |-> r.stage,
                                  exit |-> r.exit]
                      /\ UNCHANGED <<outPath, dataPath, otherThanIncr>>

\* an external fetch step writes, or removes, the data file
FetchNewData ==
    \E d \in IncrData \ {dataFile} :
        /\ dataFile' = d
        /\ call' = [NoIncrCall EXCEPT !.op = "fetch"]
        /\ UNCHANGED <<outPath, outFile, dataPath, cacheDir, cacheFile,
                       renderedFrom, otherThanIncr>>

\* the SVG is removed between two runs, the case the svg_path.exists() test
\* of should_regenerate_svg is there for
RemoveSvg ==
    /\ outFile.kind # "absent"
    /\ outFile' = Absent
    /\ renderedFrom' = None
    /\ call' = [NoIncrCall EXCEPT !.op = "remove_svg"]
    /\ UNCHANGED <<outPath, dataPath, dataFile, cacheDir, cacheFile, otherThanIncr>>

NextIncr == IncrementalGenerate \/ FetchNewData \/ RemoveSvg

SpecIncr == InitIncr /\ [][NextIncr]_vars

-----------------------------------------------------------------------------
(* Claims about incremental generation (SpecIncr) *)

IncrRun == "generate_with_change_detection"

\* C26: the hash cache is updated only after the generator subprocess has
\* exited with code 0; when the generator exits with another code the cache
\* file is left unchanged, and the next invocation with the same data again
\* decides to regenerate.
C26_RetryAfterFailure ==
    [][ /\ (call'.op = IncrRun /\ cacheFile' # cacheFile)
              => (call'.stage = "generated" /\ call'.exit = 0)
        /\ (call'.op = IncrRun /\ call'.stage = "failed")
              => (call'.exit # 0 /\ cacheFile' = cacheFile)
        /\ ( /\ call.op = IncrRun /\ call.stage = "failed"
             /\ call'.op = IncrRun /\ call'.stage # "rejected"
             /\ call'.key = call.key /\ call'.force = call.force )
              => call'.stage \in {"generated", "failed"} ]_vars

\* C27: whenever a run skips generation for cache_key, the SVG at svg_path
\* was rendered from data whose hash equals the hash of the current data
\* file.
C27_SkipMeansRendered ==
    [][ (call'.op = IncrRun /\ call'.stage = "skipped")
        => renderedFrom = current_hash(dataPath, dataFile) ]_vars

-----------------------------------------------------------------------------
(* More claims about the workflow metrics *)

\* C28: starting from a workflow with no metrics file, after any sequence
\* of record_workflow_run and reset_failure_count calls the persisted
\* record satisfies total_runs = successful_runs + failed_runs and
\* 0 <= consecutive_failures <= failed_runs.
C28_CountersConsistent ==
    metricsDir.file.kind # "absent"
    => ( /\ metricsDir.file.kind = "record"
         /\ Persisted.total_runs = Persisted.successful_runs + Persisted.failed_runs
         /\ 0 <= Persisted.consecutive_failures
         /\ Persisted.consecutive_failures <= Persisted.failed_runs )

\* two failed runs and then a successful run: the streak is back to 0
C28_Witness ==
    /\ call.op = "record_workflow_run"
    /\ call.ret = "ok"
    /\ Len(recorded) = 3
    /\ ~recorded[1].success /\ ~recorded[2].success /\ recorded[3].success
    /\ Persisted.total_runs = 3
    /\ Persisted.failed_runs = 2
    /\ Persisted.consecutive_failures = 0

\* record_workflow_run and check_failure_threshold alone (SpecRecord)
NextRecord == RecordWorkflowRun \/ CheckFailureThreshold

SpecRecord == InitMetrics /\ [][NextRecord]_vars

\* the failed runs at the end of the runs recorded
RECURSIVE failures_since_success(_)
failures_since_success(runs) ==
    IF runs = <<>> \/ runs[Len(runs)].success THEN 0
    ELSE 1 + failures_since_success(SubSeq(runs, 1, Len(runs) - 1))

\* the t most recent runs recorded all failed
last_failed(runs, t) ==
    /\ Len(runs) >= t
    /\ \A i \in (Len(runs) - t + 1)..Len(runs) : ~runs[i].success

\* C29: after any sequence of record_workflow_run calls,
\* consecutive_failures equals the number of failed runs recorded since
\* the most recent successful run (or since the record was created), and
\* check_failure_threshold(workflow, t) returns true exactly when at least
\* the t most recent recorded runs all failed.
C29_StreakIsRecentFailures ==
    /\ Persisted.consecutive_failures = failures_since_success(recorded)
    /\ call.op = "check_failure_threshold"
         => call.ret = Bool(last_failed(recorded, call.threshold))

\* a success and two failures recorded, threshold 2 reached, 3 not
C29_Witness ==
    /\ call.op = "check_failure_threshold"
    /\ call.threshold = 2
    /\ call.ret = "true"
    /\ Len(recorded) = 3
    /\ recorded[1].success /\ ~recorded[2].success /\ ~recorded[3].success
    /\ Persisted.consecutive_failures = 2

\* the calls on a metrics file that was damaged outside the program
\* (SpecCorrupt)
InitCorrupt ==
    /\ metricsDir \in {MetricsDir(file, MetricsAbsent) :
                          file \in {MetricsText, MetricsBytes}}
    /\ recorded = <<>>
    /\ call = NoMetricsCall
    /\ NoCards /\ NoInput /\ NoSanitizer /\ NoTheme /\ NoIncr

SpecCorrupt == InitCorrupt /\ [][NextMetrics]_vars

\* C30: if the metrics file of the workflow exists but cannot be read or
\* parsed, record_workflow_run does not overwrite it with a record whose
\* counters and run_history restart from an empty record.
C30_HistoryNotDiscarded ==
    [][ ( /\ call'.op = "record_workflow_run"
          /\ metricsDir.file.kind \in {"text", "bytes"} )
        => ~( /\ metricsDir'.file.kind = "record"
              /\ metricsDir'.file.m.total_runs = 1
              /\ Len(metricsDir'.file.m.run_history) = 1 ) ]_vars

====
